---- MODULE Spec2Model ----
(***************************************************************************)
(* Model of the reference converter: the XML-to-BibTeX orchestrators       *)
(* (XMLConverter.convertToBibtex, ConversionEngine.convertXMLToBibTeX),    *)
(* their citation-key generators, and the external enhancement pipeline    *)
(* (ExternalAPIManager: rate limiter, requests, provider order, matching). *)
(*                                                                         *)
(* Text is modelled by TLA+ strings, handled character by character with   *)
(* Len, Head, Tail, SubSeq and \o.                                         *)
(***************************************************************************)
EXTENDS Integers, Sequences, FiniteSets, TLC

(***************************************************************************)
(* Text helpers: the JavaScript string operations the code uses.           *)
(***************************************************************************)
LowerStr == "abcdefghijklmnopqrstuvwxyz"
UpperStr == "ABCDEFGHIJKLMNOPQRSTUVWXYZ"
DigitStr == "0123456789"

CharAt(s, k) == SubSeq(s, k, k)

\* position of the one-character string c in str, 0 when absent
IndexIn(c, str) ==
    IF \E k \in 1..Len(str) : CharAt(str, k) = c
    THEN CHOOSE k \in 1..Len(str) : CharAt(str, k) = c
    ELSE 0

LowerSet == {CharAt(LowerStr, k) : k \in 1..Len(LowerStr)}
UpperSet == {CharAt(UpperStr, k) : k \in 1..Len(UpperStr)}
DigitSet == {CharAt(DigitStr, k) : k \in 1..Len(DigitStr)}
UpperOf == [c \in LowerSet |-> CharAt(UpperStr, IndexIn(c, LowerStr))]
LowerOf == [c \in UpperSet |-> CharAt(LowerStr, IndexIn(c, UpperStr))]

IsLower(c) == c \in LowerSet
IsUpper(c) == c \in UpperSet
IsLetter(c) == IsLower(c) \/ IsUpper(c)
IsDigit(c) == c \in DigitSet
\* \w of a JavaScript regular expression
IsWordChar(c) == IsLetter(c) \/ IsDigit(c) \/ c = "_"
\* \s of a JavaScript regular expression (the model's texts use the space)
IsSpace(c) == c = " "

ToUpperChar(c) == IF IsLower(c) THEN UpperOf[c] ELSE c
ToLowerChar(c) == IF IsUpper(c) THEN LowerOf[c] ELSE c

\* The per-character operations below work on the two halves of the text, so
\* that the depth of the recursion stays small on long texts.
RECURSIVE toLowerCase(_)
toLowerCase(s) ==
    IF Len(s) <= 1 THEN ToLowerChar(s)
    ELSE LET h == Len(s) \div 2
         IN toLowerCase(SubSeq(s, 1, h)) \o toLowerCase(SubSeq(s, h + 1, Len(s)))

RECURSIVE toUpperCase(_)
toUpperCase(s) ==
    IF Len(s) <= 1 THEN ToUpperChar(s)
    ELSE LET h == Len(s) \div 2
         IN toUpperCase(SubSeq(s, 1, h)) \o toUpperCase(SubSeq(s, h + 1, Len(s)))

\* s.replace(/[^a-zA-Z]/g, '')
RECURSIVE KeepLetters(_)
KeepLetters(s) ==
    IF Len(s) <= 1 THEN (IF IsLetter(s) THEN s ELSE "")
    ELSE LET h == Len(s) \div 2
         IN KeepLetters(SubSeq(s, 1, h)) \o KeepLetters(SubSeq(s, h + 1, Len(s)))

\* s.replace(/[^a-z]/g, '')
RECURSIVE KeepLower(_)
KeepLower(s) ==
    IF Len(s) <= 1 THEN (IF IsLower(s) THEN s ELSE "")
    ELSE LET h == Len(s) \div 2
         IN KeepLower(SubSeq(s, 1, h)) \o KeepLower(SubSeq(s, h + 1, Len(s)))

\* s.replace(/[^a-zA-Z0-9_]/g, '')
RECURSIVE KeepWordChars(_)
KeepWordChars(s) ==
    IF Len(s) <= 1 THEN (IF IsWordChar(s) THEN s ELSE "")
    ELSE LET h == Len(s) \div 2
         IN KeepWordChars(SubSeq(s, 1, h)) \o KeepWordChars(SubSeq(s, h + 1, Len(s)))

\* s.replace(new RegExp('\\' + c, 'g'), rep): every occurrence of the character c
RECURSIVE ReplaceAll(_, _, _)
ReplaceAll(s, c, rep) ==
    IF Len(s) <= 1 THEN (IF s = c THEN rep ELSE s)
    ELSE LET h == Len(s) \div 2
         IN ReplaceAll(SubSeq(s, 1, h), c, rep)
                \o ReplaceAll(SubSeq(s, h + 1, Len(s)), c, rep)

RECURSIVE TrimLeft(_)
TrimLeft(s) == IF s # "" /\ IsSpace(Head(s)) THEN TrimLeft(Tail(s)) ELSE s

RECURSIVE TrimRight(_)
TrimRight(s) ==
    IF s # "" /\ IsSpace(CharAt(s, Len(s)))
    THEN TrimRight(SubSeq(s, 1, Len(s) - 1))
    ELSE s

\* s.trim()
trim(s) == TrimRight(TrimLeft(s))

\* s.replace(/\s+/g, ' ')
RECURSIVE CollapseRange(_, _, _)
CollapseRange(s, lo, hi) ==
    IF lo > hi THEN ""
    ELSE IF lo = hi
    THEN IF ~IsSpace(CharAt(s, lo)) THEN CharAt(s, lo)
         ELSE IF lo > 1 /\ IsSpace(CharAt(s, lo - 1)) THEN "" ELSE " "
    ELSE LET h == (lo + hi) \div 2
         IN CollapseRange(s, lo, h) \o CollapseRange(s, h + 1, hi)

CollapseSpaces(s) == CollapseRange(s, 1, Len(s))

\* s.split(/\s+/): a leading or trailing run of spaces yields an empty piece,
\* and the empty string yields one empty piece
\* the words of s that start at position k or later
RECURSIVE WordsFrom(_, _)
WordsFrom(s, k) ==
    LET starts == {b \in k..Len(s) :
                      ~IsSpace(CharAt(s, b)) /\ (b = 1 \/ IsSpace(CharAt(s, b - 1)))}
    IN IF starts = {} THEN <<>>
       ELSE LET b == CHOOSE x \in starts : \A y \in starts : x <= y
                ends == {e \in b..Len(s) :
                            e = Len(s) \/ IsSpace(CharAt(s, e + 1))}
                e == CHOOSE x \in ends : \A y \in ends : x <= y
            IN <<SubSeq(s, b, e)>> \o WordsFrom(s, e + 1)

SplitSpaces(s) ==
    IF s = "" THEN <<"">>
    ELSE (IF IsSpace(CharAt(s, 1)) THEN <<"">> ELSE <<>>)
            \o WordsFrom(s, 1)
            \o (IF IsSpace(CharAt(s, Len(s))) THEN <<"">> ELSE <<>>)

\* s.split(' and '): the pieces between occurrences of the separator
RECURSIVE SplitAndAcc(_, _, _)
SplitAndAcc(s, acc, cur) ==
    IF s = "" THEN Append(acc, cur)
    ELSE IF Len(s) >= 5 /\ SubSeq(s, 1, 5) = " and "
         THEN SplitAndAcc(SubSeq(s, 6, Len(s)), Append(acc, cur), "")
         ELSE SplitAndAcc(Tail(s), acc, cur \o Head(s))

SplitAnd(s) == SplitAndAcc(s, <<>>, "")

\* parts.join(sep)
RECURSIVE Join(_, _)
Join(parts, sep) ==
    IF parts = <<>> THEN ""
    ELSE IF Len(parts) = 1 THEN parts[1]
    ELSE parts[1] \o sep \o Join(Tail(parts), sep)

\* seq.slice(0, n)
Take(seq, n) == SubSeq(seq, 1, IF Len(seq) < n THEN Len(seq) ELSE n)

\* decimal text of a natural number
RECURSIVE NatToStr(_)
NatToStr(n) ==
    IF n < 10 THEN CharAt(DigitStr, n + 1)
    ELSE NatToStr(n \div 10) \o CharAt(DigitStr, (n % 10) + 1)

AllDigits(s) == \A k \in 1..Len(s) : IsDigit(CharAt(s, k))

\* s.match(/\d{4}/): the first run of four digits, "" when there is none
MatchFourDigits(s) ==
    LET hits == {k \in 1..(Len(s) - 3) : AllDigits(SubSeq(s, k, k + 3))}
    IN IF hits = {} THEN ""
       ELSE LET k == CHOOSE h \in hits : \A g \in hits : h <= g
            IN SubSeq(s, k, k + 3)

\* s.match(/\b(19|20)\d{2}\b/): the first four-digit word starting 19 or 20
MatchYearWord(s) ==
    LET boundary(k) == k < 1 \/ k > Len(s) \/ ~IsWordChar(CharAt(s, k))
        hits == {k \in 1..(Len(s) - 3) :
                    /\ SubSeq(s, k, k + 1) \in {"19", "20"}
                    /\ AllDigits(SubSeq(s, k + 2, k + 3))
                    /\ boundary(k - 1)
                    /\ boundary(k + 4)}
    IN IF hits = {} THEN ""
       ELSE LET k == CHOOSE h \in hits : \A g \in hits : h <= g
            IN SubSeq(s, k, k + 3)

\* /^(the|and|of|in|on|at|to|for|with|by)$/i
XCStopWords == {"the", "and", "of", "in", "on", "at", "to", "for", "with", "by"}
\* /^(the|and|or|of|in|on|at|to|for|with|by)$/i
CEStopWords == XCStopWords \cup {"or"}

(***************************************************************************)
(* Inputs.  A document either fails to parse or holds a sequence of        *)
(* located records; a record is the text of the elements the extractors    *)
(* read ("" when the element is absent).                                   *)
(***************************************************************************)
MaxRecords == 2

FieldNames == {"title", "author", "year", "volume", "doi", "note"}

RecSmith ==
    [title |-> "A Study of Things", authors |-> <<"Smith, John">>, year |-> "2023",
     refType |-> "", volume |-> "", doi |-> "", note |-> "seen", custom |-> "c1"]
\* a record with neither a title nor an author
RecBare ==
    [title |-> "", authors |-> <<>>, year |-> "1999",
     refType |-> "Journal Article", volume |-> "7", doi |-> "", note |-> "",
     custom |-> ""]
RecItem ==
    [title |-> "Item", authors |-> <<"Jane Doe">>, year |-> "2020",
     refType |-> "", volume |-> "", doi |-> "", note |-> "", custom |-> ""]
\* the title of RecItem followed by what the suffix of the second record looks like
RecItemOne ==
    [title |-> "Item_1", authors |-> <<"Jane Doe">>, year |-> "2020",
     refType |-> "", volume |-> "", doi |-> "", note |-> "", custom |-> ""]

RecordPool == {RecSmith, RecBare, RecItem, RecItemOne}

RecordSeqs == UNION {[1..n -> RecordPool] : n \in 0..MaxRecords}

\* parses = FALSE: DOMParser reports a parsererror
Documents ==
    {[parses |-> FALSE, records |-> <<>>]}
        \cup {[parses |-> TRUE, records |-> rs] : rs \in RecordSeqs}

(***************************************************************************)
(* XMLConverter: text extraction and LaTeX escaping.                       *)
(***************************************************************************)
latexSpecialChars ==
    << <<"&", "\\&">>, <<"%", "\\%">>, <<"$", "\\$">>, <<"#", "\\#">>,
       <<"_", "\\_">>, <<"{", "\\{">>, <<"}", "\\}">>,
       <<"~", "\\textasciitilde{}">>, <<"^", "\\textasciicircum{}">>,
       <<"\\", "\\textbackslash{}">>,
       <<"<", "\\textless{}">>, <<">", "\\textgreater{}">> >>

\* the replacements of latexSpecialChars from the k-th on, one after the other
RECURSIVE EscapeFrom(_, _)
EscapeFrom(text, k) ==
    IF k > Len(latexSpecialChars) THEN text
    ELSE EscapeFrom(
            ReplaceAll(text, latexSpecialChars[k][1], latexSpecialChars[k][2]),
            k + 1)

escapeLatex(text, cfg) ==
    IF ~cfg.escapeLatexChars \/ text = "" THEN text ELSE EscapeFrom(text, 1)

\* escapeMap of ConversionEngine.escapeLatexCharacters
escapeMap(char) ==
    IF \E k \in 1..10 : latexSpecialChars[k][1] = char
    THEN latexSpecialChars[CHOOSE k \in 1..10 : latexSpecialChars[k][1] = char][2]
    ELSE char

\* text.replace(/[&%$#_{}~^\\]/g, char => escapeMap[char]): one pass over the
\* characters of text
RECURSIVE escapeLatexCharacters(_)
escapeLatexCharacters(text) ==
    IF Len(text) = 0 THEN text
    ELSE IF Len(text) = 1 THEN escapeMap(text)
    ELSE LET h == Len(text) \div 2
         IN escapeLatexCharacters(SubSeq(text, 1, h))
                \o escapeLatexCharacters(SubSeq(text, h + 1, Len(text)))

\* text of an element without <style> children
extractTextContent(text, cfg) ==
    LET clean == trim(CollapseSpaces(text))
    IN IF cfg.escapeLatexChars THEN escapeLatex(clean, cfg) ELSE clean

extractTitle(record, cfg) == extractTextContent(record.title, cfg)

RECURSIVE NonEmptyTexts(_, _)
NonEmptyTexts(texts, cfg) ==
    IF texts = <<>> THEN <<>>
    ELSE LET t == extractTextContent(texts[1], cfg)
         IN (IF t # "" THEN <<t>> ELSE <<>>) \o NonEmptyTexts(Tail(texts), cfg)

XCextractAuthors(record, cfg) == NonEmptyTexts(record.authors, cfg)

XCextractYear(record, cfg) ==
    IF record.year = "" THEN ""
    ELSE MatchFourDigits(extractTextContent(record.year, cfg))

entryTypeMap(refType) ==
    CASE refType = "Journal Article" -> "article"
      [] refType = "Book" -> "book"
      [] refType = "Book Section" -> "incollection"
      [] refType = "Conference Paper" -> "inproceedings"
      [] refType \in {"Conference Proceedings", "Conference Proceeding"} -> "proceedings"
      [] refType = "Thesis" -> "phdthesis"
      [] refType = "Report" -> "techreport"
      [] refType = "Web Page" -> "online"
      [] refType = "Patent" -> "patent"
      [] refType \in {"Unpublished Work", "Manuscript"} -> "unpublished"
      [] refType \in {"Magazine Article", "Newspaper Article", "Electronic Article"}
            -> "article"
      [] OTHER -> "misc"

\* no <ref-type> element: 'Generic'
extractReferenceType(record, cfg) ==
    IF record.refType = "" THEN "Generic" ELSE record.refType

capitalize(word) ==
    ToUpperChar(CharAt(word, 1)) \o toLowerCase(SubSeq(word, 2, Len(word)))

RECURSIVE MapCapitalize(_)
MapCapitalize(words) ==
    IF words = <<>> THEN ""
    ELSE capitalize(words[1]) \o MapCapitalize(Tail(words))

\* index is the 0-based position of the record
generateCitationKey(record, index, cfg) ==
    LET authors == XCextractAuthors(record, cfg)
        firstAuthor == IF Len(authors) > 0 THEN authors[1] ELSE "Unknown"
        authorParts == SplitSpaces(firstAuthor)
        lastName == KeepLetters(authorParts[Len(authorParts)])
        y == XCextractYear(record, cfg)
        year == IF y # "" THEN y ELSE "0000"
        title == extractTitle(record, cfg)
        significant(word) == Len(word) > 3 /\ toLowerCase(word) \notin XCStopWords
        titleWords ==
            IF title # "" THEN Take(SelectSeq(SplitSpaces(title), significant), 2)
            ELSE <<>>
        baseCitationKey == lastName \o year \o MapCapitalize(titleWords)
        citationKey ==
            baseCitationKey \o (IF index > 0 THEN "_" \o NatToStr(index) ELSE "")
    IN KeepWordChars(citationKey)

(***************************************************************************)
(* ExternalAPIManager: what a provider answers, best-match selection,      *)
(* result formatting and the merge.  A score is the number                 *)
(* calculateMatchScore returned for the candidate, in thousandths.         *)
(* A FieldSet is [v: FieldNames -> text ("" = empty or absent),            *)
(* num: the fields whose value is a JSON number instead of a string].      *)
(***************************************************************************)
EmptyVals == [f \in FieldNames |-> ""]

\* findBestMatch's `bestScore > 0.7`
MatchThreshold == 700

Cand(score, title, volume, doi, cites, num) ==
    [score |-> score, title |-> title, volume |-> volume, doi |-> doi,
     citationCount |-> cites, num |-> num]

\* the answer to one request: no answer within the timeout, a non-2xx status,
\* a body that is not JSON, or a list of candidates
Timeout == [kind |-> "timeout", cands |-> <<>>]
HttpError == [kind |-> "http", cands |-> <<>>]
Malformed == [kind |-> "malformed", cands |-> <<>>]
Ok(cands) == [kind |-> "ok", cands |-> cands]

NoResult == [found |-> FALSE, v |-> EmptyVals, num |-> {}]

\* makeRequest: returns the parsed payload or throws
makeRequest(resp) ==
    [exc |-> resp.kind # "ok", data |-> resp.cands]

\* the loop of findBestMatch from the k-th result on; the index of the best
\* result so far (0 = null) and its score
RECURSIVE BestFrom(_, _, _, _)
BestFrom(results, k, bestMatch, bestScore) ==
    IF k > Len(results) THEN [bestMatch |-> bestMatch, bestScore |-> bestScore]
    ELSE IF results[k].score > bestScore
         THEN BestFrom(results, k + 1, k, results[k].score)
         ELSE BestFrom(results, k + 1, bestMatch, bestScore)

\* findBestMatch with `bestScore >= 0.7`
findBestMatchAtLeast(results) ==
    LET b == BestFrom(results, 1, 0, 0)
    IN IF b.bestScore >= MatchThreshold THEN b.bestMatch ELSE 0

\* index of the returned result, 0 for null
findBestMatch(results) ==
    LET b == BestFrom(results, 1, 0, 0)
    IN IF b.bestScore > MatchThreshold THEN b.bestMatch ELSE 0

findBestCrossrefMatch(results) ==
    LET b == BestFrom(results, 1, 0, 0)
    IN IF b.bestScore > MatchThreshold THEN b.bestMatch ELSE 0

formatSemanticScholarResult(result) ==
    [found |-> TRUE,
     v |-> [EmptyVals EXCEPT
                !["title"] = result.title,
                !["doi"] = result.doi,
                !["note"] = IF result.citationCount >= 0
                            THEN "Cited by " \o NatToStr(result.citationCount)
                                    \o " (Semantic Scholar)"
                            ELSE ""],
     num |-> result.num \cap {"title", "doi"}]

formatCrossrefResult(result) ==
    [found |-> TRUE,
     v |-> [EmptyVals EXCEPT
                !["title"] = result.title,
                !["volume"] = result.volume,
                !["doi"] = result.doi],
     num |-> result.num \cap {"volume", "doi"}]

\* searchSemanticScholar without its try/catch: a failed request throws on
searchSemanticScholarNoCatch(resp) ==
    LET r == makeRequest(resp)
    IN IF r.exc THEN [exc |-> TRUE, val |-> NoResult]
       ELSE LET bestMatch == IF Len(r.data) > 0 THEN findBestMatch(r.data) ELSE 0
            IN [exc |-> FALSE,
                val |-> IF bestMatch > 0
                        THEN formatSemanticScholarResult(r.data[bestMatch])
                        ELSE NoResult]

\* the search's try/catch turns every failure into null
searchSemanticScholar(resp) ==
    LET r == makeRequest(resp)
    IN IF r.exc THEN [exc |-> FALSE, val |-> NoResult]
       ELSE LET bestMatch == IF Len(r.data) > 0 THEN findBestMatch(r.data) ELSE 0
            IN [exc |-> FALSE,
                val |-> IF bestMatch > 0
                        THEN formatSemanticScholarResult(r.data[bestMatch])
                        ELSE NoResult]

searchCrossref(resp) ==
    LET r == makeRequest(resp)
    IN IF r.exc THEN [exc |-> FALSE, val |-> NoResult]
       ELSE LET bestMatch ==
                    IF Len(r.data) > 0 THEN findBestCrossrefMatch(r.data) ELSE 0
            IN [exc |-> FALSE,
                val |-> IF bestMatch > 0
                        THEN formatCrossrefResult(r.data[bestMatch])
                        ELSE NoResult]

\* the merge loop without its emptiness test: every result value is taken
mergeEnhancedOverwrite(fields, result) ==
    [found |-> TRUE,
     v |-> [key \in FieldNames |-> result.v[key]],
     num |-> result.num]

\* the merge loop of enhanceReference: the object `enhanced`
mergeEnhanced(fields, result) ==
    LET take(key) == result.v[key] # "" /\ trim(fields.v[key]) = ""
        append(key) == result.v[key] # "" /\ ~take(key) /\ key = "note"
    IN [found |-> TRUE,
        v |-> [key \in FieldNames |->
                 IF take(key) THEN result.v[key]
                 ELSE IF append(key) THEN fields.v["note"] \o "; " \o result.v[key]
                 ELSE ""],
        num |-> {key \in result.num : take(key)}]

\* enhanceReference(fields) with the providers answering ssResp and crResp:
\* exc = it threw, crossref = searchCrossref was called, source = the provider
\* whose result was merged, enhanced = the returned object
enhanceReference(fields, ssResp, crResp) ==
    LET ss == searchSemanticScholar(ssResp)
        cr == searchCrossref(crResp)
        none == [found |-> FALSE, v |-> EmptyVals, num |-> {}]
    IN IF ss.exc
       THEN [exc |-> FALSE, crossref |-> FALSE, source |-> "none", enhanced |-> none]
       ELSE IF ss.val.found
       THEN [exc |-> FALSE, crossref |-> FALSE, source |-> "Semantic Scholar",
             enhanced |-> mergeEnhanced(fields, ss.val)]
       ELSE IF cr.exc
       THEN [exc |-> FALSE, crossref |-> TRUE, source |-> "none", enhanced |-> none]
       ELSE IF cr.val.found
       THEN [exc |-> FALSE, crossref |-> TRUE, source |-> "Crossref",
             enhanced |-> mergeEnhanced(fields, cr.val)]
       ELSE [exc |-> FALSE, crossref |-> TRUE, source |-> "none", enhanced |-> none]

\* Object.assign(fields, enhancedFields)
assignFields(fields, enhanced) ==
    [v |-> [key \in FieldNames |->
              IF enhanced.v[key] # "" THEN enhanced.v[key] ELSE fields.v[key]],
     num |-> (fields.num \ {key \in FieldNames : enhanced.v[key] # ""})
                \cup enhanced.num]

(***************************************************************************)
(* XMLConverter.processRecord and what it calls.                           *)
(***************************************************************************)
extractFields(record, cfg) ==
    LET authors == XCextractAuthors(record, cfg)
    IN [v |-> [title |-> extractTitle(record, cfg),
               author |-> IF Len(authors) > 0 THEN Join(authors, " and ") ELSE "",
               year |-> XCextractYear(record, cfg),
               volume |-> extractTextContent(record.volume, cfg),
               doi |-> extractTextContent(record.doi, cfg),
               note |-> extractTextContent(record.note, cfg)],
        num |-> {}]

formatFieldValue(value, fieldName) ==
    LET t == trim(value)
    IN IF value = "" THEN ""
       ELSE IF fieldName = "title" /\ Head(t) # "{" /\ CharAt(t, Len(t)) # "}"
            THEN "{" \o t \o "}"
            ELSE t

\* value.trim() of a value that is a number is a TypeError
formatFields(fields) ==
    [exc |-> fields.num # {},
     val |-> [key \in FieldNames |->
                IF trim(fields.v[key]) = "" THEN ""
                ELSE formatFieldValue(fields.v[key], key)]]

XCConfigs ==
    [useStringDefinitions : BOOLEAN, enableApiEnhancement : BOOLEAN,
     escapeLatexChars : BOOLEAN]

\* generateCitationKey and extractFields tabulated over the model's inputs
\* (they read the record, its position and config.escapeLatexChars)
CitationKeyOf ==
    [record \in RecordPool |-> [index \in 0..MaxRecords |-> [esc \in BOOLEAN |->
        generateCitationKey(record, index, [escapeLatexChars |-> esc])]]]

FieldsOf ==
    [record \in RecordPool |-> [esc \in BOOLEAN |->
        extractFields(record, [escapeLatexChars |-> esc])]]

\* exc: processRecord threw; entry: the generated entry otherwise
processRecord(record, index, cfg, ssResp, crResp) ==
    LET refType == extractReferenceType(record, cfg)
        bibtexType == entryTypeMap(refType)
        citationKey == CitationKeyOf[record][index][cfg.escapeLatexChars]
        fields == FieldsOf[record][cfg.escapeLatexChars]
        enh == enhanceReference(fields, ssResp, crResp)
        merged ==
            IF cfg.enableApiEnhancement /\ ~enh.exc
            THEN assignFields(fields, enh.enhanced)
            ELSE fields
        formatted == formatFields(merged)
    IN [exc |-> formatted.exc,
        entry |-> [index |-> index, type |-> bibtexType,
                   citationKey |-> citationKey, fields |-> formatted.val]]

(***************************************************************************)
(* ConversionEngine.parseReference and what it calls.                      *)
(***************************************************************************)
\* querySelector throws a SyntaxError on a selector that is no CSS selector;
\* a type selector starts with a letter
ValidSelector(selector) == selector # "" /\ IsLetter(Head(selector))

\* extractText(element, selectors) for the selectors from the k-th on, the
\* record holding at most the element <custom> among them
RECURSIVE CEextractTextFrom(_, _, _)
CEextractTextFrom(record, selectorList, k) ==
    IF k > Len(selectorList) THEN [exc |-> FALSE, val |-> ""]
    ELSE IF ~ValidSelector(selectorList[k]) THEN [exc |-> TRUE, val |-> ""]
    ELSE IF selectorList[k] = "custom" /\ record.custom # ""
         THEN [exc |-> FALSE, val |-> trim(record.custom)]
         ELSE CEextractTextFrom(record, selectorList, k + 1)

\* extractText for a field whose first selector names the element
CEextractText(text) == trim(text)

RECURSIVE TrimmedNames(_)
TrimmedNames(texts) ==
    IF texts = <<>> THEN <<>>
    ELSE (IF trim(texts[1]) # "" THEN <<trim(texts[1])>> ELSE <<>>)
            \o TrimmedNames(Tail(texts))

CEextractAuthors(record) == Join(TrimmedNames(record.authors), " and ")

CEextractYear(record) ==
    LET yearText == CEextractText(record.year)
    IN IF yearText # "" THEN MatchYearWord(yearText) ELSE ""

\* refNumber is the 1-based position of the record
generateBibTeXKey(record, refNumber) ==
    LET author == CEextractAuthors(record)
        year == CEextractYear(record)
        title == CEextractText(record.title)
        nameParts == SplitSpaces(trim(SplitAnd(author)[1]))
        k1 == IF author # ""
              THEN KeepLower(toLowerCase(nameParts[Len(nameParts)]))
              ELSE ""
        k2 == k1 \o year
        significant(word) == Len(word) > 3 /\ toLowerCase(word) \notin CEStopWords
        titleWords == SelectSeq(SplitSpaces(title), significant)
        k3 == IF title # "" /\ Len(k2) < 10 /\ Len(titleWords) > 0
              THEN k2 \o Take(KeepLower(toLowerCase(titleWords[1])), 6)
              ELSE k2
    IN IF Len(k3) < 3 THEN "ref" \o NatToStr(refNumber) ELSE k3

\* the forEach over options.customFields from the k-th on: exc when an
\* extractText throws, val the first value found
RECURSIVE CECustomFrom(_, _, _)
CECustomFrom(record, customFields, k) ==
    IF k > Len(customFields) THEN [exc |-> FALSE, val |-> ""]
    ELSE LET r == CEextractTextFrom(record, customFields[k], 1)
             rest == CECustomFrom(record, customFields, k + 1)
         IN IF r.exc THEN r
            ELSE [exc |-> rest.exc, val |-> IF r.val # "" THEN r.val ELSE rest.val]

CEOptions ==
    {[customFields |-> <<>>], [customFields |-> << <<"custom", "1st">> >>]}

\* generateBibTeXKey tabulated over the model's inputs
BibTeXKeyOf ==
    [record \in RecordPool |-> [refNumber \in 1..(MaxRecords + 1) |->
        generateBibTeXKey(record, refNumber)]]

\* exc: parseReference threw; null: it returned null; ref: the reference
parseReference(record, options, refNumber) ==
    LET custom == CECustomFrom(record, options.customFields, 1)
        reference ==
            [index |-> refNumber - 1,
             id |-> BibTeXKeyOf[record][refNumber],
             title |-> CEextractText(record.title),
             author |-> CEextractAuthors(record),
             year |-> CEextractYear(record),
             volume |-> CEextractText(record.volume),
             doi |-> CEextractText(record.doi),
             custom |-> custom.val]
    IN [exc |-> custom.exc,
        null |-> reference.title = "" /\ reference.author = "",
        ref |-> reference]

(***************************************************************************)
(* The conversion run.  impl says which converter the run uses.            *)
(***************************************************************************)
VARIABLES
    impl,              \* "XMLConverter" or "ConversionEngine"
    xmlData,           \* the document handed to the conversion call
    config,            \* XMLConverter.config
    options,           \* the ConversionOptions of ConversionEngine
    pc,                \* where the conversion call is
    records,           \* the located records
    i,                 \* the loop index
    bibtexEntries,     \* XMLConverter: the entries generated so far
    conversionErrors,  \* XMLConverter.conversionErrors
    references,        \* ConversionEngine: the references parsed so far
    warnings,          \* ConversionEngine: the warnings of the run
    events,            \* history: callback invocations and processed records
    returned           \* what the call gave its caller

convVars ==
    <<impl, xmlData, config, options, pc, records, i, bibtexEntries,
      conversionErrors, references, warnings, events, returned>>

VARIABLES
    now,          \* Date.now(), in milliseconds
    lastApiCall,  \* ExternalAPIManager.lastApiCall
    req,          \* per caller of makeRequest: where its request is
    enh,          \* the enhanceReference call of the current record
    sendLog       \* history: when the last two requests were sent

apiVars == <<now, lastApiCall, req, enh, sendLog>>

VARIABLES
    runImpl,      \* runs on one instance: which converter the instance is
    runConfig,    \* XMLConverter.config of the instance
    xc,           \* conversionErrors, journals, publishers, journalNameToKey
    lastRun       \* history: the most recent conversion run, and what a new
                  \* converter returns for the same document

runVars == <<runImpl, runConfig, xc, lastRun>>

\* one makeRequest call followed in its own time
VARIABLES call
callVars == <<call>>

\* applied: a function of the converters applied to one input; progress,
\* logger, settingsManager: the state of the three utility objects
VARIABLES applied, progress, logger, settingsManager
utilVars == <<applied, progress, logger, settingsManager>>

\* what the providers answer during a conversion run
RunSSResponses ==
    {Timeout,
     Ok(<<Cand(700, "A Study of Things", "", "10.1/a", 3, {})>>),
     Ok(<<Cand(1000, "A Study of Things", "", "10.1/a", 3, {})>>)}
RunCRResponses ==
    {HttpError,
     Ok(<<Cand(900, "Found Title", "12", "10.1/b", -1, {"volume"})>>),
     Ok(<<Cand(900, "Found Title", "12", "10.1/b", -1, {})>>)}

CallbackEvent(at, current, ret) == [e |-> "cb", at |-> at, n |-> current, flag |-> ret]
RecordEvent(index, threw) == [e |-> "proc", at |-> "loop", n |-> index, flag |-> threw]

NothingReturned == [kind |-> "none", entries |-> <<>>]

ConvInit ==
    /\ impl \in {"XMLConverter", "ConversionEngine"}
    /\ xmlData \in Documents
    /\ config \in IF impl = "XMLConverter" THEN XCConfigs
                  ELSE {[useStringDefinitions |-> TRUE, enableApiEnhancement |-> TRUE,
                         escapeLatexChars |-> TRUE]}
    /\ options \in IF impl = "ConversionEngine" THEN CEOptions
                   ELSE {[customFields |-> <<>>]}
    /\ pc = "idle"
    /\ records = <<>>
    /\ i = 0
    /\ bibtexEntries = <<>>
    /\ conversionErrors = <<>>
    /\ references = <<>>
    /\ warnings = <<>>
    /\ events = <<>>
    /\ returned = NothingReturned

\* convertToBibtex up to the located records: reset, parse, find the records
XCStart ==
    /\ impl = "XMLConverter" /\ pc = "idle"
    /\ bibtexEntries' = <<>>
    /\ i' = 0
    /\ IF ~xmlData.parses
       THEN /\ conversionErrors' = <<[kind |-> "parse", ordinal |-> 0]>>
            /\ returned' = [kind |-> "empty", entries |-> <<>>]
            /\ records' = <<>>
            /\ pc' = "done"
       ELSE IF Len(xmlData.records) = 0
       THEN /\ conversionErrors' = <<[kind |-> "norecords", ordinal |-> 0]>>
            /\ returned' = [kind |-> "empty", entries |-> <<>>]
            /\ records' = <<>>
            /\ pc' = "done"
       ELSE /\ conversionErrors' = <<>>
            /\ returned' = returned
            /\ records' = xmlData.records
            /\ pc' = IF config.useStringDefinitions THEN "prepass" ELSE "loop"
    /\ UNCHANGED <<impl, xmlData, config, options, references, warnings, events>>
    /\ UNCHANGED apiVars
    /\ UNCHANGED runVars
    /\ UNCHANGED callVars
    /\ UNCHANGED utilVars

\* the progress callback before the pre-pass (its answer is not looked at) and
\* collectJournalAndPublisherInfo
XCPrePass ==
    /\ impl = "XMLConverter" /\ pc = "prepass"
    /\ \E ret \in BOOLEAN :
          events' = Append(events, CallbackEvent("prepass", 0, ret))
    /\ pc' = "loop"
    /\ UNCHANGED <<impl, xmlData, config, options, records, i, bibtexEntries,
                   conversionErrors, references, warnings, returned>>
    /\ UNCHANGED apiVars
    /\ UNCHANGED runVars
    /\ UNCHANGED callVars
    /\ UNCHANGED utilVars

\* the head of the record loop: the progress callback; false breaks the loop
XCLoopCallback ==
    /\ impl = "XMLConverter" /\ pc = "loop" /\ i < Len(records)
    /\ \E ret \in BOOLEAN :
          /\ events' = Append(events, CallbackEvent("loop", i + 1, ret))
          /\ pc' = IF ret THEN "record" ELSE "final"
    /\ UNCHANGED <<impl, xmlData, config, options, records, i, bibtexEntries,
                   conversionErrors, references, warnings, returned>>
    /\ UNCHANGED apiVars
    /\ UNCHANGED runVars
    /\ UNCHANGED callVars
    /\ UNCHANGED utilVars

\* the record loop without its try/catch: what processRecord throws reaches
\* the caller of convertToBibtex
XCProcessRecordNoCatch ==
    /\ impl = "XMLConverter" /\ pc = "record"
    /\ \E ssResp \in RunSSResponses, crResp \in RunCRResponses :
          LET r == processRecord(records[i + 1], i, config, ssResp, crResp)
          IN /\ IF r.exc
                THEN /\ returned' = [kind |-> "threw", entries |-> <<>>]
                     /\ bibtexEntries' = bibtexEntries
                     /\ pc' = "done"
                ELSE /\ bibtexEntries' = Append(bibtexEntries, r.entry)
                     /\ returned' = returned
                     /\ pc' = "loop"
             /\ events' = Append(events, RecordEvent(i, r.exc))
    /\ i' = i + 1
    /\ UNCHANGED <<impl, xmlData, config, options, records, references, warnings,
                   conversionErrors>>
    /\ UNCHANGED apiVars
    /\ UNCHANGED runVars
    /\ UNCHANGED callVars
    /\ UNCHANGED utilVars

\* the body of the record loop: processRecord inside try/catch
XCProcessRecord ==
    /\ impl = "XMLConverter" /\ pc = "record"
    /\ \E ssResp \in RunSSResponses, crResp \in RunCRResponses :
          LET r == processRecord(records[i + 1], i, config, ssResp, crResp)
          IN /\ IF r.exc
                THEN /\ conversionErrors' =
                            Append(conversionErrors,
                                   [kind |-> "record", ordinal |-> i + 1])
                     /\ bibtexEntries' = bibtexEntries
                ELSE /\ bibtexEntries' = Append(bibtexEntries, r.entry)
                     /\ conversionErrors' = conversionErrors
             /\ events' = Append(events, RecordEvent(i, r.exc))
    /\ i' = i + 1
    /\ pc' = "loop"
    /\ UNCHANGED <<impl, xmlData, config, options, records, references, warnings,
                   returned>>
    /\ UNCHANGED apiVars
    /\ UNCHANGED runVars
    /\ UNCHANGED callVars
    /\ UNCHANGED utilVars

\* after the loop: the last progress callback, then the output is assembled
XCFinish ==
    /\ impl = "XMLConverter"
    /\ pc = "final" \/ (pc = "loop" /\ i >= Len(records))
    /\ \E ret \in BOOLEAN :
          events' = Append(events, CallbackEvent("final", Len(records), ret))
    /\ returned' = [kind |-> "bibtex", entries |-> bibtexEntries]
    /\ pc' = "done"
    /\ UNCHANGED <<impl, xmlData, config, options, records, i, bibtexEntries,
                   conversionErrors, references, warnings>>
    /\ UNCHANGED apiVars
    /\ UNCHANGED runVars
    /\ UNCHANGED callVars
    /\ UNCHANGED utilVars

\* convertXMLToBibTeX up to the forEach: parse (a parse error is rethrown as
\* 'Conversion failed'), locate the entries
CEStart ==
    /\ impl = "ConversionEngine" /\ pc = "idle"
    /\ references' = <<>>
    /\ i' = 0
    /\ IF ~xmlData.parses
       THEN /\ warnings' = <<>>
            /\ returned' = [kind |-> "threw", entries |-> <<>>]
            /\ records' = <<>>
            /\ pc' = "done"
       ELSE IF Len(xmlData.records) = 0
       THEN /\ warnings' = <<[kind |-> "norecords", ordinal |-> 0]>>
            /\ returned' = [kind |-> "result", entries |-> <<>>]
            /\ records' = <<>>
            /\ pc' = "done"
       ELSE /\ warnings' = <<>>
            /\ returned' = returned
            /\ records' = xmlData.records
            /\ pc' = "each"
    /\ UNCHANGED <<impl, xmlData, config, options, bibtexEntries, conversionErrors,
                   events>>
    /\ UNCHANGED apiVars
    /\ UNCHANGED runVars
    /\ UNCHANGED callVars
    /\ UNCHANGED utilVars

\* one iteration of entries.forEach in extractReferences
CEParseReference ==
    /\ impl = "ConversionEngine" /\ pc = "each" /\ i < Len(records)
    /\ LET r == parseReference(records[i + 1], options, i + 1)
       IN /\ IF r.exc
             THEN /\ warnings' = Append(warnings, [kind |-> "record", ordinal |-> i + 1])
                  /\ references' = references
             ELSE /\ references' = IF r.null THEN references
                                   ELSE Append(references, r.ref)
                  /\ warnings' = warnings
          /\ events' = Append(events, RecordEvent(i, r.exc))
    /\ i' = i + 1
    /\ UNCHANGED <<impl, xmlData, config, options, pc, records, bibtexEntries,
                   conversionErrors, returned>>
    /\ UNCHANGED apiVars
    /\ UNCHANGED runVars
    /\ UNCHANGED callVars
    /\ UNCHANGED utilVars

\* convertToBibTeX over the references and the returned ConversionResult
CEFinish ==
    /\ impl = "ConversionEngine" /\ pc = "each" /\ i >= Len(records)
    /\ returned' = [kind |-> "result", entries |-> references]
    /\ pc' = "done"
    /\ UNCHANGED <<impl, xmlData, config, options, records, i, bibtexEntries,
                   conversionErrors, references, warnings, events>>
    /\ UNCHANGED apiVars
    /\ UNCHANGED runVars
    /\ UNCHANGED callVars
    /\ UNCHANGED utilVars

(***************************************************************************)
(* ExternalAPIManager in time: rateLimit, makeRequest and its callers.     *)
(* One step is what JavaScript runs without suspending: a call up to its   *)
(* first timer or fetch, a timer firing, a response arriving.              *)
(***************************************************************************)
\* this.rateLimitDelay, milliseconds
RateLimitDelay == 1000
\* the manager's timeout after updateConfig({timeout: ApiTimeoutSeconds})
ApiTimeoutSeconds == 2
timeout == ApiTimeoutSeconds * 1000
\* the clock advances in steps of TickMs up to MaxTime
TickMs == 500
MaxTime == 5000
\* enhanceReference calls made by one conversion run
MaxApiRecords == 2

\* the callers of makeRequest: the conversion run (enhanceReference, record
\* after record) and testConnectivity
Callers == {"enhance", "test"}

IdleRequest == [pc |-> "idle", wakeAt |-> 0, sentAt |-> 0, provider |-> "none"]
NoResponse == [kind |-> "none", cands |-> <<>>]

NoEnhance ==
    [recNo |-> 0, active |-> FALSE, fields |-> [v |-> EmptyVals, num |-> {}],
     queried |-> <<>>, ssResp |-> NoResponse, crResp |-> NoResponse,
     ssPick |-> 0, crPick |-> 0, source |-> "none",
     enhanced |-> NoResult, threw |-> FALSE,
     merged |-> [v |-> EmptyVals, num |-> {}], entryThrew |-> FALSE]

\* the FieldSets handed to enhanceReference
ApiFieldSets ==
    {FieldsOf[RecSmith][TRUE], FieldsOf[RecBare][TRUE]}

\* what Semantic Scholar and Crossref answer (a timeout apart)
ApiSSResponses ==
    {HttpError, Malformed,
     Ok(<<Cand(700, "A Study of Things", "", "10.1/a", 3, {})>>),
     Ok(<<Cand(650, "A Study", "", "10.1/a0", 0, {}),
          Cand(710, "A Study of Things", "", "10.1/a", 3, {})>>)}
ApiCRResponses ==
    {HttpError, Ok(<<>>),
     Ok(<<Cand(700, "Study of Things", "12", "10.1/b", -1, {})>>),
     Ok(<<Cand(710, "Study of Things", "12", "10.1/b", -1, {}),
          Cand(650, "Things", "3", "10.1/b0", -1, {})>>)}

ApiIdle ==
    /\ now = RateLimitDelay
    /\ lastApiCall = 0
    /\ req = [c \in Callers |-> IdleRequest]
    /\ enh = NoEnhance
    /\ sendLog = [prev |-> -1, last |-> -1]

\* the fetch of makeRequest is issued
Sent(c, provider) ==
    /\ req' = [req EXCEPT ![c] = [pc |-> "fetch", wakeAt |-> 0, sentAt |-> now,
                                  provider |-> provider]]
    /\ lastApiCall' = now
    /\ sendLog' = [prev |-> sendLog.last, last |-> now]

\* makeRequest up to its first suspension: rateLimit() either waits on a
\* timer or sets lastApiCall and the request is sent
rateLimit(c, provider) ==
    LET timeSinceLastCall == now - lastApiCall
    IN IF timeSinceLastCall < RateLimitDelay
       THEN /\ req' = [req EXCEPT ![c] =
                        [pc |-> "rateLimit",
                         wakeAt |-> now + (RateLimitDelay - timeSinceLastCall),
                         sentAt |-> 0, provider |-> provider]]
            /\ UNCHANGED <<lastApiCall, sendLog>>
       ELSE Sent(c, provider)

\* `if (!result)` of enhanceReference: Crossref is tried
TryCrossrefAlways(result) == TRUE
TryCrossref(result) == ~result.found

\* a second search that asks Semantic Scholar again
SecondSearchAgain == "Semantic Scholar"
\* the search enhanceReference makes when the first gave no result:
\* searchCrossref, one makeRequest with no retry loop
SecondSearch == "Crossref"

\* enhanceReference returns `enhanced`; processRecord assigns it and formats
EnhanceReturns(e, source, enhanced) ==
    LET merged == assignFields(e.fields, enhanced)
    IN [e EXCEPT !.active = FALSE, !.source = source, !.enhanced = enhanced,
                 !.merged = merged, !.entryThrew = formatFields(merged).exc]

\* processRecord calls enhanceReference(fields): searchSemanticScholar builds
\* its query and calls makeRequest
EnhanceCall ==
    /\ req["enhance"].pc = "idle" /\ enh.recNo < MaxApiRecords
    /\ \E f \in ApiFieldSets :
          enh' = [NoEnhance EXCEPT !.recNo = enh.recNo + 1, !.active = TRUE,
                                   !.fields = f,
                                   !.queried = <<"Semantic Scholar">>]
    /\ rateLimit("enhance", "Semantic Scholar")
    /\ UNCHANGED now
    /\ UNCHANGED convVars
    /\ UNCHANGED runVars
    /\ UNCHANGED callVars
    /\ UNCHANGED utilVars

\* setTimeout(resolve, waitTime) fires: lastApiCall is set, the request sent
TimerFires ==
    /\ \E c \in Callers :
          /\ req[c].pc = "rateLimit"
          /\ now >= req[c].wakeAt
          /\ Sent(c, req[c].provider)
    /\ UNCHANGED <<now, enh>>
    /\ UNCHANGED convVars
    /\ UNCHANGED runVars
    /\ UNCHANGED callVars
    /\ UNCHANGED utilVars

\* a response arrives while the timeout has not fired, or the abort fires
Arrives(c, resp) ==
    IF resp.kind = "timeout" THEN now - req[c].sentAt >= timeout
    ELSE now - req[c].sentAt < timeout

\* the request of enhanceReference ends: the search returns its result or
\* null, and enhanceReference goes on to Crossref or to the merge
EnhanceRespond ==
    /\ req["enhance"].pc = "fetch"
    /\ UNCHANGED now
    /\ UNCHANGED convVars
    /\ UNCHANGED runVars
    /\ UNCHANGED callVars
    /\ UNCHANGED utilVars
    /\ IF req["enhance"].provider = "Semantic Scholar"
       THEN \E resp \in ApiSSResponses \cup {Timeout} :
               /\ Arrives("enhance", resp)
               /\ LET ss == searchSemanticScholar(resp)
                      pick == IF resp.kind = "ok" /\ Len(resp.cands) > 0
                              THEN findBestMatch(resp.cands) ELSE 0
                      e == [enh EXCEPT !.ssResp = resp, !.ssPick = pick]
                  IN IF ss.exc
                     THEN /\ enh' = EnhanceReturns(e, "none", NoResult)
                          /\ req' = [req EXCEPT !["enhance"] = IdleRequest]
                          /\ UNCHANGED <<lastApiCall, sendLog>>
                     ELSE IF TryCrossref(ss.val)
                     THEN /\ enh' = [e EXCEPT !.queried = Append(@, SecondSearch)]
                          /\ rateLimit("enhance", SecondSearch)
                     ELSE /\ enh' = EnhanceReturns(e, "Semantic Scholar",
                                        mergeEnhanced(e.fields, ss.val))
                          /\ req' = [req EXCEPT !["enhance"] = IdleRequest]
                          /\ UNCHANGED <<lastApiCall, sendLog>>
       ELSE \E resp \in ApiCRResponses \cup {Timeout} :
               /\ Arrives("enhance", resp)
               /\ LET cr == searchCrossref(resp)
                      pick == IF resp.kind = "ok" /\ Len(resp.cands) > 0
                              THEN findBestCrossrefMatch(resp.cands) ELSE 0
                      e == [enh EXCEPT !.crResp = resp, !.crPick = pick]
                  IN /\ enh' = IF ~cr.exc /\ cr.val.found
                               THEN EnhanceReturns(e, "Crossref",
                                        mergeEnhanced(e.fields, cr.val))
                               ELSE EnhanceReturns(e, "none", NoResult)
                     /\ req' = [req EXCEPT !["enhance"] = IdleRequest]
                     /\ UNCHANGED <<lastApiCall, sendLog>>

\* testConnectivity is called: its first test calls makeRequest
TestCall ==
    /\ req["test"].pc = "idle"
    /\ rateLimit("test", "Semantic Scholar")
    /\ UNCHANGED <<now, enh>>
    /\ UNCHANGED convVars
    /\ UNCHANGED runVars
    /\ UNCHANGED callVars
    /\ UNCHANGED utilVars

\* a test request ends (success or error): the next test, or the results
TestRespond ==
    /\ req["test"].pc = "fetch"
    /\ \E resp \in {Timeout, HttpError, Ok(<<>>)} : Arrives("test", resp)
    /\ IF req["test"].provider = "Semantic Scholar"
       THEN rateLimit("test", "Crossref")
       ELSE /\ req' = [req EXCEPT !["test"] = [IdleRequest EXCEPT !.pc = "done"]]
            /\ UNCHANGED <<lastApiCall, sendLog>>
    /\ UNCHANGED <<now, enh>>
    /\ UNCHANGED convVars
    /\ UNCHANGED runVars
    /\ UNCHANGED callVars
    /\ UNCHANGED utilVars

\* time passes
Tick ==
    /\ now + TickMs <= MaxTime
    /\ now' = now + TickMs
    /\ UNCHANGED <<lastApiCall, req, enh, sendLog>>
    /\ UNCHANGED convVars
    /\ UNCHANGED runVars
    /\ UNCHANGED callVars
    /\ UNCHANGED utilVars

\* the conversion run is not looked at
ConvIdle ==
    /\ impl = "XMLConverter"
    /\ xmlData = [parses |-> TRUE, records |-> <<>>]
    /\ config = [useStringDefinitions |-> FALSE, enableApiEnhancement |-> TRUE,
                 escapeLatexChars |-> TRUE]
    /\ options = [customFields |-> <<>>]
    /\ pc = "off"
    /\ records = <<>>
    /\ i = 0
    /\ bibtexEntries = <<>>
    /\ conversionErrors = <<>>
    /\ references = <<>>
    /\ warnings = <<>>
    /\ events = <<>>
    /\ returned = NothingReturned

(***************************************************************************)
(* Conversion runs, one after the other, on one converter instance, with   *)
(* no progress callback installed and enhancement disabled.  A record of   *)
(* a run document holds its title, journal (secondary-title) and publisher *)
(* as elements whose text sits in one <style face="..."> child.            *)
(***************************************************************************)
MaxRunRecords == 2

Elem(face, text) == [face |-> face, text |-> text]
\* the element is absent
NoElem == Elem("", "")

RunRecTea ==
    [title |-> Elem("italic", "Tea"), journal |-> Elem("", "Acta"),
     publisher |-> Elem("", "Acta"), author |-> "Ann Lee", year |-> "2001"]
\* a journal name that differs from "Acta" by case only
RunRecUp ==
    [title |-> Elem("", "Up"), journal |-> Elem("", "ACTA"),
     publisher |-> NoElem, author |-> "Bo Ek", year |-> "2002"]
\* a journal name without a letter or digit
RunRecOre ==
    [title |-> Elem("", "Ore"), journal |-> Elem("", "??"),
     publisher |-> Elem("bold", "Ion"), author |-> "", year |-> "2003"]
RunRecordPool == {RunRecTea, RunRecUp, RunRecOre}

RunDocuments ==
    {[parses |-> FALSE, records |-> <<>>]}
        \cup {[parses |-> TRUE, records |-> rs] :
                rs \in UNION {[1..n -> RunRecordPool] : n \in 0..MaxRunRecords}}

RunConfigs ==
    [useStringDefinitions : BOOLEAN, extractStyledText : BOOLEAN,
     escapeLatexChars : BOOLEAN, enableApiEnhancement : {FALSE}]

\* Body of the value v, v being worked out once
With(v, Body(_)) == CHOOSE r \in {Body(x) : x \in {v}} : TRUE

\* text.includes(part)
includes(text, part) ==
    \E k \in 1..(Len(text) - Len(part) + 1) :
        SubSeq(text, k, k + Len(part) - 1) = part

\* the <style> loop of extractTextContent: the element afterwards
styledElement(el, cfg) ==
    IF cfg.extractStyledText /\ el.face # "" /\ el.text # ""
    THEN IF includes(el.face, "italic")
         THEN Elem(el.face, "\\textit{" \o el.text \o "}")
         ELSE IF includes(el.face, "bold")
         THEN Elem(el.face, "\\textbf{" \o el.text \o "}")
         ELSE el
    ELSE el

\* extractTextContent on an element: the returned text and the element afterwards
extractElement(el, cfg) ==
    With(styledElement(el, cfg),
         LAMBDA after : [text |-> extractTextContent(after.text, cfg), el |-> after])

\* the record as the extractors for title, authors and year read it now
PlainOf(d) ==
    [title |-> d.title.text,
     authors |-> IF d.author = "" THEN <<>> ELSE <<d.author>>,
     year |-> d.year, refType |-> "", volume |-> "", doi |-> "", note |-> "",
     custom |-> ""]

\* getRecordTitle: the title is extracted for the progress message
getRecordTitle(d, cfg) ==
    [d EXCEPT !.title = extractElement(d.title, cfg).el]

\* s.replace(/[^a-zA-Z0-9\s]/g, '')
RECURSIVE KeepAlnumSpaces(_)
KeepAlnumSpaces(s) ==
    IF Len(s) <= 1
    THEN (IF IsLetter(s) \/ IsDigit(s) \/ IsSpace(s) THEN s ELSE "")
    ELSE LET h == Len(s) \div 2
         IN KeepAlnumSpaces(SubSeq(s, 1, h))
                \o KeepAlnumSpaces(SubSeq(s, h + 1, Len(s)))

RECURSIVE MapLower(_)
MapLower(words) ==
    IF words = <<>> THEN <<>>
    ELSE <<toLowerCase(words[1])>> \o MapLower(Tail(words))

\* s.substring(0, n)
substring(s, n) == SubSeq(s, 1, IF Len(s) < n THEN Len(s) ELSE n)

generateJournalKey(journalName) ==
    substring(Join(MapLower(SplitSpaces(KeepAlnumSpaces(journalName))), ""), 20)

generatePublisherKey(publisherName) ==
    substring(Join(MapLower(SplitSpaces(KeepAlnumSpaces(publisherName))), ""), 15)

\* a JavaScript object as the sequence of its [key, val] properties in
\* insertion order
HasKey(obj, key) == \E k \in 1..Len(obj) : obj[k].key = key
GetKey(obj, key) == obj[CHOOSE k \in 1..Len(obj) : obj[k].key = key].val
PutKey(obj, key, val) ==
    IF HasKey(obj, key)
    THEN [k \in 1..Len(obj) |->
            IF obj[k].key = key THEN [key |-> key, val |-> val] ELSE obj[k]]
    ELSE Append(obj, [key |-> key, val |-> val])

\* the instance state of a new XMLConverter
NewConverter ==
    [conversionErrors |-> <<>>, journals |-> <<>>, publishers |-> <<>>,
     journalNameToKey |-> <<>>]

\* journalNameToKey[journalName] || null, "" standing for null: an empty key
\* is falsy
getJournalKey(st, journalName) ==
    IF HasKey(st.journalNameToKey, journalName)
    THEN GetKey(st.journalNameToKey, journalName)
    ELSE ""

\* the key, or null ("") when no publisher is registered under it
getPublisherKey(st, publisherName) ==
    LET key == generatePublisherKey(publisherName)
    IN IF HasKey(st.publishers, key) THEN key ELSE ""

addJournal(st, journalName) ==
    IF getJournalKey(st, journalName) # "" THEN st
    ELSE LET key == generateJournalKey(journalName)
         IN [st EXCEPT !.journals = PutKey(@, key, journalName),
                       !.journalNameToKey = PutKey(@, journalName, key)]

addPublisher(st, publisherName) ==
    LET key == generatePublisherKey(publisherName)
    IN IF HasKey(st.publishers, key) THEN st
       ELSE [st EXCEPT !.publishers = PutKey(@, key, publisherName)]

\* a reset that forgets to empty the publishers
resetKeepsPublishers(st) ==
    [conversionErrors |-> <<>>, journals |-> <<>>, publishers |-> st.publishers,
     journalNameToKey |-> <<>>]

\* a reset that forgets to empty the error list
resetKeepsErrors(st) ==
    [conversionErrors |-> st.conversionErrors, journals |-> <<>>,
     publishers |-> <<>>, journalNameToKey |-> <<>>]

\* the first four statements of convertToBibtex
resetCollections(st) ==
    [conversionErrors |-> <<>>, journals |-> <<>>, publishers |-> <<>>,
     journalNameToKey |-> <<>>]

\* collectJournalAndPublisherInfo from the k-th record on: the instance state
\* and the records afterwards
RECURSIVE collectJournalAndPublisherInfo(_, _, _, _)
collectJournalAndPublisherInfo(st, recs, k, cfg) ==
    IF k > Len(recs) THEN [st |-> st, recs |-> recs]
    ELSE With(extractElement(recs[k].journal, cfg), LAMBDA j :
         With(extractElement(recs[k].publisher, cfg), LAMBDA p :
         With(trim(j.text), LAMBDA journalName :
         With(trim(p.text), LAMBDA publisherName :
         With(IF journalName # "" THEN addJournal(st, journalName) ELSE st, LAMBDA st1 :
            collectJournalAndPublisherInfo(
                IF publisherName # "" THEN addPublisher(st1, publisherName) ELSE st1,
                [recs EXCEPT ![k] = [@ EXCEPT !.journal = j.el, !.publisher = p.el]],
                k + 1, cfg))))))

\* the journal and publisher branches of formatFields
formatNamedField(st, value, fieldName, cfg) ==
    With(IF fieldName = "journal" THEN getJournalKey(st, value)
         ELSE getPublisherKey(st, value),
         LAMBDA key :
            IF trim(value) = "" THEN ""
            ELSE IF cfg.useStringDefinitions /\ key # "" THEN key
            ELSE formatFieldValue(value, fieldName))

\* one iteration of the record loop on the record d at position index: the
\* entry and the record afterwards
processLocatedRecord(st, d, index, cfg) ==
    With(getRecordTitle(getRecordTitle(d, cfg), cfg), LAMBDA d2 :
    With(getRecordTitle(d2, cfg), LAMBDA d3 :
    With(extractElement(d3.journal, cfg), LAMBDA j :
    With(extractElement(d3.publisher, cfg), LAMBDA p :
        [entry |-> [index |-> index,
                    citationKey |-> generateCitationKey(PlainOf(d2), index, cfg),
                    fields |-> formatFields(extractFields(PlainOf(d3), cfg)).val,
                    journalValue |-> j.text,
                    journal |-> formatNamedField(st, j.text, "journal", cfg),
                    publisherValue |-> p.text,
                    publisher |-> formatNamedField(st, p.text, "publisher", cfg)],
         d |-> getRecordTitle([d3 EXCEPT !.journal = j.el, !.publisher = p.el],
                              cfg)]))))

RECURSIVE processRecords(_, _, _, _, _)
processRecords(st, recs, k, cfg, entries) ==
    IF k > Len(recs) THEN [entries |-> entries, recs |-> recs]
    ELSE With(processLocatedRecord(st, recs[k], k - 1, cfg), LAMBDA r :
            processRecords(st, [recs EXCEPT ![k] = r.d], k + 1, cfg,
                           Append(entries, r.entry)))

\* the @string lines, journals first (within each group the lines are then
\* ordered by category)
generateStringDefinitions(st) ==
    [k \in 1..Len(st.journals) |->
        [key |-> st.journals[k].key, value |-> st.journals[k].val]]
    \o [k \in 1..Len(st.publishers) |->
        [key |-> st.publishers[k].key, value |-> st.publishers[k].val]]

\* generateStatistics without its timestamp line
generateStatistics(st, totalRecords, convertedRecords, cfg) ==
    [totalRecords |-> totalRecords, convertedRecords |-> convertedRecords,
     errorCount |-> Len(st.conversionErrors),
     stringDefinitions |-> cfg.useStringDefinitions]

NoOutput == [kind |-> "empty", stats |-> <<>>, stringDefs |-> <<>>, entries |-> <<>>]

\* convertToBibtex after its first four statements, st0 being the instance
\* state they leave: the state afterwards, the returned output and the
\* located records as the run left them
convertAfterReset(st0, doc, cfg) ==
       IF ~doc.parses
       THEN [st |-> [st0 EXCEPT !.conversionErrors =
                        Append(@, [kind |-> "parse", ordinal |-> 0])],
             output |-> NoOutput, recs |-> <<>>]
       ELSE IF Len(doc.records) = 0
       THEN [st |-> [st0 EXCEPT !.conversionErrors =
                        Append(@, [kind |-> "norecords", ordinal |-> 0])],
             output |-> NoOutput, recs |-> <<>>]
       ELSE With(IF cfg.useStringDefinitions
                 THEN collectJournalAndPublisherInfo(st0, doc.records, 1, cfg)
                 ELSE [st |-> st0, recs |-> doc.records], LAMBDA pre :
            With(processRecords(pre.st, pre.recs, 1, cfg, <<>>), LAMBDA done :
               [st |-> pre.st,
                output |->
                    [kind |-> "bibtex",
                     stats |-> <<generateStatistics(pre.st, Len(doc.records),
                                                    Len(done.entries), cfg)>>,
                     stringDefs |-> IF cfg.useStringDefinitions
                                    THEN generateStringDefinitions(pre.st)
                                    ELSE <<>>,
                     entries |-> done.entries],
                recs |-> done.recs]))

\* convertAfterReset on empty collections, tabulated over the model's inputs
ConvertedOf ==
    {[cfg |-> cfg, doc |-> doc, run |-> convertAfterReset(NewConverter, doc, cfg)] :
        cfg \in RunConfigs, doc \in RunDocuments}

\* the first run of a new converter instance on doc
RunOfNew(doc, cfg) == (CHOOSE t \in ConvertedOf : t.cfg = cfg /\ t.doc = doc).run

\* convertToBibtex(xmlData) on an instance in state st
convertToBibtex(st, doc, cfg) ==
    With(resetCollections(st), LAMBDA st0 :
        IF st0 = NewConverter THEN RunOfNew(doc, cfg)
        ELSE convertAfterReset(st0, doc, cfg))

\* extractReferences and convertToBibTeX of the ConversionEngine from the
\* k-th located entry on
RECURSIVE extractReferences(_, _, _, _, _)
extractReferences(recs, options_, k, refs, warns) ==
    IF k > Len(recs) THEN [references |-> refs, warnings |-> warns]
    ELSE With(parseReference(recs[k], options_, k), LAMBDA r :
            extractReferences(recs, options_, k + 1,
                IF r.exc \/ r.null THEN refs ELSE Append(refs, r.ref),
                IF r.exc THEN Append(warns, [kind |-> "record", ordinal |-> k])
                ELSE warns))

\* convertXMLToBibTeX(xmlContent, options): the returned bibtex and warnings
convertXMLToBibTeX(doc, options_) ==
    IF ~doc.parses
    THEN [kind |-> "threw", stats |-> <<>>, stringDefs |-> <<>>, entries |-> <<>>]
    ELSE With(extractReferences(doc.records, options_, 1, <<>>, <<>>), LAMBDA r :
            [kind |-> "result", stats |-> r.warnings, stringDefs |-> <<>>,
             entries |-> r.references])

\* lastRun: the last run of the instance (before: the instance state it
\* started from, recs: the located records as it left them, fresh: what a new
\* instance returns for the same document)
NoRun == [ran |-> FALSE, doc |-> [parses |-> FALSE, records |-> <<>>],
          before |-> NewConverter, output |-> NoOutput, recs |-> <<>>,
          fresh |-> NoOutput]

\* a new converter instance, no run made yet
RunInit ==
    /\ runImpl \in {"XMLConverter", "ConversionEngine"}
    /\ runConfig \in IF runImpl = "XMLConverter" THEN RunConfigs
                     ELSE {[useStringDefinitions |-> FALSE, extractStyledText |-> FALSE,
                            escapeLatexChars |-> FALSE, enableApiEnhancement |-> FALSE]}
    /\ xc = NewConverter
    /\ lastRun = NoRun

\* runs on one instance are not looked at
RunIdle ==
    /\ runImpl = "XMLConverter"
    /\ runConfig = [useStringDefinitions |-> FALSE, extractStyledText |-> FALSE,
                    escapeLatexChars |-> FALSE, enableApiEnhancement |-> FALSE]
    /\ xc = NewConverter
    /\ lastRun = NoRun

\* one call of XMLConverter.convertToBibtex, start to return
XCRun ==
    /\ runImpl = "XMLConverter"
    /\ \E doc \in RunDocuments :
          \E r \in {convertToBibtex(xc, doc, runConfig)} :
             /\ xc' = r.st
             /\ lastRun' = [ran |-> TRUE, doc |-> doc, before |-> xc,
                            output |-> r.output, recs |-> r.recs,
                            fresh |-> RunOfNew(doc, runConfig).output]
    /\ UNCHANGED <<runImpl, runConfig>>
    /\ UNCHANGED <<convVars, apiVars>>
    /\ UNCHANGED callVars
    /\ UNCHANGED utilVars

\* one call of ConversionEngine.convertXMLToBibTeX, start to return; the
\* engine keeps no state between calls
CERun ==
    /\ runImpl = "ConversionEngine"
    /\ \E doc \in Documents, options_ \in CEOptions :
          \E run \in {convertXMLToBibTeX(doc, options_)} :
              lastRun' = [ran |-> TRUE,
                          doc |-> [parses |-> doc.parses, records |-> doc.records,
                                   options |-> options_],
                          before |-> xc, output |-> run, recs |-> doc.records,
                          fresh |-> convertXMLToBibTeX(doc, options_)]
    /\ UNCHANGED <<runImpl, runConfig, xc>>
    /\ UNCHANGED <<convVars, apiVars>>
    /\ UNCHANGED callVars
    /\ UNCHANGED utilVars

(***************************************************************************)
(* makeRequest, one call after the other, in milliseconds of the call's    *)
(* own time.  The provider's part is fixed when the call is made: when the *)
(* response headers arrive, with which status, and what becomes of the     *)
(* body.  Time does not pass while a timer or a response is due.           *)
(***************************************************************************)
\* milliseconds from the fetch to the response headers, -1 for never
HeaderDelays == {-1, 0, TickMs, timeout - TickMs}

ProviderPlans ==
    [headersAfter : HeaderDelays, ok : BOOLEAN, body : {"json", "malformed", "stalls"}]

\* the waitTime of rateLimit, 0 when it does not wait
WaitTimes == {0, TickMs, RateLimitDelay}

NoCall ==
    [pc |-> "idle", waitTime |-> 0, elapsed |-> 0, timeoutId |-> FALSE,
     plan |-> [headersAfter |-> -1, ok |-> FALSE, body |-> "stalls"],
     outcome |-> "none"]

CallIdle == call = NoCall

\* setTimeout(() => controller.abort(), this.timeout), then fetch
Fetches(c) == [c EXCEPT !.pc = "fetch", !.elapsed = 0, !.timeoutId = TRUE]

\* makeRequest is called: rateLimit waits on its timer or the fetch is issued
MRCall ==
    /\ call.pc = "idle"
    /\ \E plan \in ProviderPlans, waitTime \in WaitTimes :
          call' = IF waitTime > 0
                  THEN [NoCall EXCEPT !.pc = "rateLimit", !.waitTime = waitTime,
                                      !.plan = plan]
                  ELSE Fetches([NoCall EXCEPT !.plan = plan])
    /\ UNCHANGED <<convVars, apiVars, runVars>>
    /\ UNCHANGED utilVars

\* the timer of rateLimit fires
MRWake ==
    /\ call.pc = "rateLimit" /\ call.waitTime = 0
    /\ call' = Fetches(call)
    /\ UNCHANGED <<convVars, apiVars, runVars>>
    /\ UNCHANGED utilVars

HeadersDue ==
    call.pc = "fetch" /\ call.plan.headersAfter >= 0
        /\ call.elapsed >= call.plan.headersAfter

AbortDue == call.timeoutId /\ call.elapsed >= timeout

\* fetch resolves with the response: clearTimeout, then the status is looked
\* at and response.json() starts to read the body
MRHeaders ==
    /\ HeadersDue
    /\ call' = IF call.plan.ok
               THEN [call EXCEPT !.timeoutId = FALSE, !.pc = "body"]
               ELSE [call EXCEPT !.timeoutId = FALSE, !.pc = "threw",
                                 !.outcome = "HTTP error"]
    /\ UNCHANGED <<convVars, apiVars, runVars>>
    /\ UNCHANGED utilVars

\* the timeout fires: controller.abort() rejects the pending fetch with an
\* AbortError, rethrown as 'Request timeout'
MRAbort ==
    /\ AbortDue
    /\ call' = [call EXCEPT !.timeoutId = FALSE, !.pc = "threw",
                            !.outcome = "Request timeout"]
    /\ UNCHANGED <<convVars, apiVars, runVars>>
    /\ UNCHANGED utilVars

\* response.json() settles: the payload, or a SyntaxError
MRBody ==
    /\ call.pc = "body" /\ call.plan.body # "stalls"
    /\ call' = IF call.plan.body = "json"
               THEN [call EXCEPT !.pc = "returned", !.outcome = "payload"]
               ELSE [call EXCEPT !.pc = "threw", !.outcome = "SyntaxError"]
    /\ UNCHANGED <<convVars, apiVars, runVars>>
    /\ UNCHANGED utilVars

\* the caller has the outcome
MRReturn ==
    /\ call.pc \in {"returned", "threw"}
    /\ call' = NoCall
    /\ UNCHANGED <<convVars, apiVars, runVars>>
    /\ UNCHANGED utilVars

\* TickMs pass for the call (followed up to one tick past the timeout)
MRTick ==
    /\ ~HeadersDue /\ ~AbortDue
    /\ \/ /\ call.pc = "rateLimit" /\ call.waitTime > 0
          /\ call' = [call EXCEPT !.waitTime =
                            IF @ > TickMs THEN @ - TickMs ELSE 0]
       \/ /\ call.pc \in {"fetch", "body"} /\ call.elapsed <= timeout
          /\ call' = [call EXCEPT !.elapsed = @ + TickMs]
    /\ UNCHANGED <<convVars, apiVars, runVars>>
    /\ UNCHANGED utilVars

\* nothing has been applied yet
NotApplied == [fn |-> "none"]

(***************************************************************************)
(* The match score of ExternalAPIManager.  A similarity and a score are    *)
(* the exact quotient num/den of what the code computes in floating point; *)
(* weights and factors are counted in tenths.                              *)
(***************************************************************************)
Range(seq) == {seq[k] : k \in 1..Len(seq)}

\* the value of the digits text
RECURSIVE DigitsValue(_)
DigitsValue(digits) ==
    IF digits = "" THEN 0
    ELSE 10 * DigitsValue(SubSeq(digits, 1, Len(digits) - 1))
            + (IndexIn(CharAt(digits, Len(digits)), DigitStr) - 1)

\* parseInt(text) of a text without a sign: the leading digits, -1 for NaN
parseInt(text) ==
    With(TrimLeft(text), LAMBDA t :
        IF t = "" \/ ~IsDigit(CharAt(t, 1)) THEN -1
        ELSE DigitsValue(SubSeq(t, 1,
                CHOOSE n \in 1..Len(t) :
                    /\ AllDigits(SubSeq(t, 1, n))
                    /\ (n = Len(t) \/ ~IsDigit(CharAt(t, n + 1))))))

\* a similarity that divides by the size of the first set
calculateStringSimilarityOfFirst(str1, str2) ==
    With(Range(SplitSpaces(str1)), LAMBDA set1 :
    With(Range(SplitSpaces(str2)), LAMBDA set2 :
        [num |-> Cardinality(set1 \cap set2), den |-> Cardinality(set1)]))

calculateStringSimilarity(str1, str2) ==
    With(Range(SplitSpaces(str1)), LAMBDA set1 :
    With(Range(SplitSpaces(str2)), LAMBDA set2 :
        [num |-> Cardinality(set1 \cap set2), den |-> Cardinality(set1 \cup set2)]))

NoSimilarity == [num |-> 0, den |-> 1]

\* score and factors after the three blocks, and the returned quotient
WeightedScore(hasTitle, titleSim, hasAuthors, authorSim, hasYear, yearMatch) ==
    With((IF hasTitle THEN 6 ELSE 0) + (IF hasAuthors THEN 3 ELSE 0)
            + (IF hasYear THEN 1 ELSE 0), LAMBDA factors :
        IF factors > 0
        THEN [num |-> 6 * titleSim.num * authorSim.den
                        + 3 * authorSim.num * titleSim.den
                        + yearMatch * titleSim.den * authorSim.den,
              den |-> titleSim.den * authorSim.den * factors]
        ELSE [num |-> 0, den |-> 1])

\* Math.abs(year - parseInt(targetYear)) <= 1 ? 1 : 0
YearMatch(year, targetYear) ==
    With(parseInt(targetYear), LAMBDA target :
        IF target >= 0 /\ year - target <= 1 /\ target - year <= 1 THEN 1 ELSE 0)

\* result: title ("" when absent), authors (present, names), year (0 when
\* absent)
calculateMatchScore(result, targetTitle, targetAuthors, targetYear) ==
    With(result.title # "" /\ targetTitle # "", LAMBDA hasTitle :
    With(result.authors.present /\ targetAuthors # "", LAMBDA hasAuthors :
    With(result.year # 0 /\ targetYear # "", LAMBDA hasYear :
        WeightedScore(
            hasTitle,
            IF hasTitle
            THEN calculateStringSimilarity(toLowerCase(result.title),
                                           toLowerCase(targetTitle))
            ELSE NoSimilarity,
            hasAuthors,
            IF hasAuthors
            THEN calculateStringSimilarity(
                    toLowerCase(Join(result.authors.names, " ")),
                    toLowerCase(targetAuthors))
            ELSE NoSimilarity,
            hasYear,
            IF hasYear THEN YearMatch(result.year, targetYear) ELSE 0))))

\* names as `${a.given} ${a.family}`
GivenFamily(author) ==
    [k \in 1..Len(author) |-> author[k].given \o " " \o author[k].family]

\* result: title (an array of texts, possibly empty), author (present, the
\* array of {given, family}), year of published-print (0 when absent)
calculateCrossrefMatchScore(result, targetTitle, targetAuthors, targetYear) ==
    With(Len(result.title) > 0 /\ targetTitle # "", LAMBDA hasTitle :
    With(result.author.present /\ targetAuthors # "", LAMBDA hasAuthors :
    With(result.year # 0 /\ targetYear # "", LAMBDA hasYear :
        WeightedScore(
            hasTitle,
            IF hasTitle
            THEN calculateStringSimilarity(toLowerCase(result.title[1]),
                                           toLowerCase(targetTitle))
            ELSE NoSimilarity,
            hasAuthors,
            IF hasAuthors
            THEN calculateStringSimilarity(
                    toLowerCase(Join(GivenFamily(result.author.names), " ")),
                    toLowerCase(targetAuthors))
            ELSE NoSimilarity,
            hasYear,
            IF hasYear THEN YearMatch(result.year, targetYear) ELSE 0))))

\* candidates and targets the scores are worked out for
ScoreTitles == {"", "A Study of Things", "a study", "Study  of Kings"}
ScoreAuthorLists ==
    {[present |-> FALSE, names |-> <<>>], [present |-> TRUE, names |-> <<>>],
     [present |-> TRUE, names |-> <<"John Smith">>],
     [present |-> TRUE, names |-> <<"John Smith", "Ann Lee">>]}
ScoreYears == {0, 2021, 2022, 2023}
TargetTitles == {"", "A Study of Things"}
TargetAuthors == {"", "Smith, John", "John Smith"}
TargetYears == {"", "2023", "n.d."}

\* the Crossref form of a list of names "given family"
CrossrefAuthors(authors) ==
    [present |-> authors.present,
     names |-> [k \in 1..Len(authors.names) |->
                  With(SplitSpaces(authors.names[k]), LAMBDA w :
                      [given |-> w[1], family |-> w[2]])]]

\* findBestMatch scores one Semantic Scholar result
ScoreSemanticScholar ==
    /\ applied = NotApplied
    /\ \E title \in ScoreTitles, authors \in ScoreAuthorLists, year \in ScoreYears,
          targetTitle \in TargetTitles, targetAuthors \in TargetAuthors,
          targetYear \in TargetYears :
          applied' =
            [fn |-> "calculateMatchScore",
             result |-> [title |-> title, authors |-> authors, year |-> year],
             targetTitle |-> targetTitle, targetAuthors |-> targetAuthors,
             targetYear |-> targetYear,
             score |-> calculateMatchScore(
                          [title |-> title, authors |-> authors, year |-> year],
                          targetTitle, targetAuthors, targetYear)]
    /\ UNCHANGED <<progress, logger, settingsManager>>
    /\ UNCHANGED <<convVars, apiVars, runVars, callVars>>

\* findBestCrossrefMatch scores one Crossref item
ScoreCrossref ==
    /\ applied = NotApplied
    /\ \E title \in ScoreTitles, authors \in ScoreAuthorLists, year \in ScoreYears,
          targetTitle \in TargetTitles, targetAuthors \in TargetAuthors,
          targetYear \in TargetYears :
          applied' =
            [fn |-> "calculateCrossrefMatchScore",
             result |-> [title |-> title, authors |-> authors, year |-> year],
             targetTitle |-> targetTitle, targetAuthors |-> targetAuthors,
             targetYear |-> targetYear,
             score |-> calculateCrossrefMatchScore(
                          [title |-> IF title = "" THEN <<>> ELSE <<title>>,
                           author |-> CrossrefAuthors(authors), year |-> year],
                          targetTitle, targetAuthors, targetYear)]
    /\ UNCHANGED <<progress, logger, settingsManager>>
    /\ UNCHANGED <<convVars, apiVars, runVars, callVars>>

(***************************************************************************)
(* ProgressManager.  progress holds the state of the manager, the number   *)
(* of its callbacks, the last call made on it, the number of callbacks     *)
(* that call invoked, and whether a cancel was made after the last start.  *)
(***************************************************************************)
MaxTotal == 3
MaxCallbacks == 2

\* the state of a new manager and of reset()
ClearedState ==
    [current |-> 0, total |-> 0, percentage |-> 0, message |-> "",
     isActive |-> FALSE, isCancelled |-> FALSE]

NewProgressManager ==
    [state |-> ClearedState, callbacks |-> 0, call |-> "new", invoked |-> 0,
     afterCancel |-> FALSE]

\* Math.round((current / total) * 100) of naturals, total > 0
RoundPercent(current, total) == (200 * current + total) \div (2 * total)

Min(a, b) == IF a < b THEN a ELSE b

\* the state after start(total, message); message "" when left out
start(state, total, message) ==
    [current |-> 0, total |-> total, percentage |-> 0,
     message |-> IF message = "" THEN "Processing..." ELSE message,
     isActive |-> TRUE, isCancelled |-> FALSE]

\* update without the test of isActive and isCancelled
updateAlways(state, current, message) ==
    With(Min(current, state.total), LAMBDA capped :
        [changed |-> TRUE,
         state |-> [state EXCEPT
            !.current = capped,
            !.percentage = IF state.total > 0 THEN RoundPercent(capped, state.total)
                           ELSE 0,
            !.message = IF message # "" THEN message
                        ELSE IF state.total > 0
                        THEN "Processing item " \o NatToStr(capped) \o " of "
                                \o NatToStr(state.total)
                        ELSE @]])

\* update(current, message): changed says whether the call got past its
\* first line and so notifies the callbacks
update(state, current, message) ==
    IF ~state.isActive \/ state.isCancelled
    THEN [changed |-> FALSE, state |-> state]
    ELSE With(Min(current, state.total), LAMBDA capped :
        [changed |-> TRUE,
         state |-> [state EXCEPT
            !.current = capped,
            !.percentage = IF state.total > 0 THEN RoundPercent(capped, state.total)
                           ELSE 0,
            !.message = IF message # "" THEN message
                        ELSE IF state.total > 0
                        THEN "Processing item " \o NatToStr(capped) \o " of "
                                \o NatToStr(state.total)
                        ELSE @]])

increment(state, message) == update(state, state.current + 1, message)

complete(state, message) ==
    [state EXCEPT !.current = state.total, !.percentage = 100,
                  !.message = IF message = "" THEN "Completed" ELSE message,
                  !.isActive = FALSE]

cancel(state, message) ==
    [state EXCEPT !.isCancelled = TRUE, !.isActive = FALSE,
                  !.message = IF message = "" THEN "Cancelled" ELSE message]

Messages == {"", "Step"}

PMAddCallback ==
    /\ progress.callbacks < MaxCallbacks
    /\ progress' = [progress EXCEPT !.callbacks = @ + 1, !.call = "addCallback",
                                    !.invoked = 0]
    /\ UNCHANGED <<applied, logger, settingsManager>>
    /\ UNCHANGED <<convVars, apiVars, runVars, callVars>>

\* removeCallback of a callback that was added
PMRemoveCallback ==
    /\ progress.callbacks > 0
    /\ progress' = [progress EXCEPT !.callbacks = @ - 1, !.call = "removeCallback",
                                    !.invoked = 0]
    /\ UNCHANGED <<applied, logger, settingsManager>>
    /\ UNCHANGED <<convVars, apiVars, runVars, callVars>>

PMStart ==
    /\ \E total \in 0..MaxTotal, message \in Messages :
          progress' = [progress EXCEPT
                          !.state = start(progress.state, total, message),
                          !.call = "start", !.invoked = progress.callbacks,
                          !.afterCancel = FALSE]
    /\ UNCHANGED <<applied, logger, settingsManager>>
    /\ UNCHANGED <<convVars, apiVars, runVars, callVars>>

PMUpdate ==
    /\ \E current \in 0..(MaxTotal + 1), message \in Messages :
       \E r \in {update(progress.state, current, message)} :
          progress' = [progress EXCEPT
                          !.state = r.state, !.call = "update",
                          !.invoked = IF r.changed THEN progress.callbacks ELSE 0]
    /\ UNCHANGED <<applied, logger, settingsManager>>
    /\ UNCHANGED <<convVars, apiVars, runVars, callVars>>

PMIncrement ==
    /\ \E message \in Messages :
       \E r \in {increment(progress.state, message)} :
          progress' = [progress EXCEPT
                          !.state = r.state, !.call = "increment",
                          !.invoked = IF r.changed THEN progress.callbacks ELSE 0]
    /\ UNCHANGED <<applied, logger, settingsManager>>
    /\ UNCHANGED <<convVars, apiVars, runVars, callVars>>

PMComplete ==
    /\ \E message \in Messages :
          progress' = [progress EXCEPT
                          !.state = complete(progress.state, message),
                          !.call = "complete", !.invoked = progress.callbacks]
    /\ UNCHANGED <<applied, logger, settingsManager>>
    /\ UNCHANGED <<convVars, apiVars, runVars, callVars>>

PMCancel ==
    /\ \E message \in Messages :
          progress' = [progress EXCEPT
                          !.state = cancel(progress.state, message),
                          !.call = "cancel", !.invoked = progress.callbacks,
                          !.afterCancel = TRUE]
    /\ UNCHANGED <<applied, logger, settingsManager>>
    /\ UNCHANGED <<convVars, apiVars, runVars, callVars>>

PMReset ==
    /\ progress' = [progress EXCEPT !.state = ClearedState, !.call = "reset",
                                    !.invoked = 0]
    /\ UNCHANGED <<applied, logger, settingsManager>>
    /\ UNCHANGED <<convVars, apiVars, runVars, callVars>>

(***************************************************************************)
(* Logger.  An entry carries the number of the log call that made it in    *)
(* place of its id and timestamp; made counts the log calls.               *)
(***************************************************************************)
MaxLogCalls == 5
MaxMaxLogs == 3
DefaultMaxLogs == 1000

NewLogger == [logs |-> <<>>, maxLogs |-> DefaultMaxLogs, categories |-> {}, made |-> 0]

\* array.slice(-count): slice(-0) is slice(0), the whole array
SliceLast(array, count) ==
    IF count = 0 \/ count >= Len(array) THEN array
    ELSE SubSeq(array, Len(array) - count + 1, Len(array))

\* log(message, level, category): category "" when left out
log(lg, message, level, category) ==
    With(Append(lg.logs, [n |-> lg.made + 1, level |-> level, message |-> message,
                          category |-> category]), LAMBDA pushed :
        [lg EXCEPT
            !.made = @ + 1,
            !.categories = IF category # "" THEN @ \cup {category} ELSE @,
            !.logs = IF Len(pushed) > lg.maxLogs THEN SliceLast(pushed, lg.maxLogs)
                     ELSE pushed])

clear(lg) ==
    log([lg EXCEPT !.logs = <<>>, !.categories = {}], "Log cleared", "INFO", "system")

setMaxLogs(lg, max) ==
    [lg EXCEPT !.maxLogs = max,
               !.logs = IF Len(@) > max THEN SliceLast(@, max) ELSE @]

LogLevels == {"INFO", "ERROR"}
LogCategories == {"", "api"}

LogCall ==
    /\ logger.made < MaxLogCalls
    /\ \E level \in LogLevels, category \in LogCategories :
          logger' = log(logger, "message", level, category)
    /\ UNCHANGED <<applied, progress, settingsManager>>
    /\ UNCHANGED <<convVars, apiVars, runVars, callVars>>

LogClear ==
    /\ logger.made < MaxLogCalls
    /\ logger' = clear(logger)
    /\ UNCHANGED <<applied, progress, settingsManager>>
    /\ UNCHANGED <<convVars, apiVars, runVars, callVars>>

LogSetMaxLogs ==
    /\ \E max \in 0..MaxMaxLogs : logger' = setMaxLogs(logger, max)
    /\ UNCHANGED <<applied, progress, settingsManager>>
    /\ UNCHANGED <<convVars, apiVars, runVars, callVars>>

(***************************************************************************)
(* SettingsManager, for five of its settings.  A value is tagged with its  *)
(* typeof; an object is a function from the keys it has.  A JSON text is   *)
(* given by the keys of its outer object and the set of its <<section,     *)
(* key, value>> members.                                                   *)
(***************************************************************************)
MaxListeners == 1

Undefined == [type |-> "undefined", val |-> ""]
Bool(text) == [type |-> "boolean", val |-> text]
Num(text) == [type |-> "number", val |-> text]
Str(text) == [type |-> "string", val |-> text]

defaultSettings ==
    [conversion |-> [escapeLatexChars |-> Bool("true"),
                     citationStyle |-> Str("standard")],
     api |-> [timeout |-> Num("10000")],
     ui |-> [theme |-> Str("auto")],
     files |-> <<>>]

\* getSchema(): a type name, or the array of the values allowed
getSchema ==
    [conversion |-> [escapeLatexChars |-> [kind |-> "string", text |-> "boolean"],
                     citationStyle |->
                        [kind |-> "array",
                         items |-> {Str("standard"), Str("acm"), Str("ieee"),
                                    Str("apa"), Str("harvard"), Str("chicago"),
                                    Str("biblatex")}]],
     api |-> [timeout |-> [kind |-> "string", text |-> "number"]],
     ui |-> [theme |-> [kind |-> "array",
                        items |-> {Str("light"), Str("dark"), Str("auto")}]],
     files |-> [downloadPath |-> [kind |-> "string", text |-> "string?"]]]

NoSchema == [kind |-> "undefined"]

\* getNestedValue(schema, path) for a path of one or two keys
SchemaAt(path) ==
    IF path[1] \notin DOMAIN getSchema THEN NoSchema
    ELSE IF Len(path) = 1 THEN [kind |-> "object"]
    ELSE IF path[2] \notin DOMAIN getSchema[path[1]] THEN NoSchema
    ELSE getSchema[path[1]][path[2]]

\* getNestedValue(this.settings, path) for a path of one or two keys
getNestedValue(obj, path) ==
    IF path[1] \notin DOMAIN obj THEN Undefined
    ELSE IF Len(path) = 1 THEN [type |-> "object", val |-> ""]
    ELSE IF path[2] \notin DOMAIN obj[path[1]] THEN Undefined
    ELSE obj[path[1]][path[2]]

validateSetting(path, value) ==
    With(SchemaAt(path), LAMBDA schemaValue :
        IF schemaValue.kind = "undefined" THEN FALSE
        ELSE IF schemaValue.kind = "string"
        THEN IF schemaValue.text = "string?"
             THEN value.type \in {"undefined", "null", "string"}
             ELSE value.type = schemaValue.text
        ELSE IF schemaValue.kind = "array" THEN value \in schemaValue.items
        ELSE FALSE)

\* validateObjectAgainstSchema(objValue, schema[section]): a key is validated
\* under its own name
validateSection(section, obj) ==
    \A key \in DOMAIN getSchema[section] :
        \/ key \notin DOMAIN obj
        \/ obj[key] = Undefined
        \/ validateSetting(<<key>>, obj[key])

\* validateSettings(settings)
validateSettings(obj) ==
    \A section \in DOMAIN getSchema :
        section \notin DOMAIN obj \/ validateSection(section, obj[section])

\* JSON.stringify(settings): a key whose value is undefined is left out
JSONstringify(obj) ==
    [sections |-> DOMAIN obj,
     members |->
        UNION {{<<section, key, obj[section][key]>> :
                    key \in {k \in DOMAIN obj[section] : obj[section][k] # Undefined}} :
               section \in DOMAIN obj}]

\* JSON.parse(text)
JSONparse(text) ==
    [section \in text.sections |->
        [key \in {m[2] : m \in {n \in text.members : n[1] = section}} |->
            (CHOOSE m \in text.members : m[1] = section /\ m[2] = key)[3]]]

\* { ...defaultSettings, ...importedSettings }
SpreadOver(defaults, imported) ==
    [section \in DOMAIN defaults \cup DOMAIN imported |->
        IF section \in DOMAIN imported THEN imported[section] ELSE defaults[section]]

\* target[lastKey] = value
setNestedValue(obj, path, value) ==
    [obj EXCEPT ![path[1]] =
        [key \in DOMAIN obj[path[1]] \cup {path[2]} |->
            IF key = path[2] THEN value ELSE obj[path[1]][key]]]

\* the paths notifyAllChanges notifies: those of the new object whose values
\* differ
ChangedPaths(old, new) ==
    {path \in UNION {{<<section, key>> : key \in DOMAIN new[section]} :
                        section \in DOMAIN new} :
        getNestedValue(old, path) # getNestedValue(new, path)}

\* stored: the text under 'refconv-settings' in localStorage, "none" when
\* there is none; threw, notified: what the last call did; arg: the
\* argument of the last set
NewSettingsManager ==
    [settings |-> defaultSettings, stored |-> "none", listeners |-> 0,
     call |-> "new", threw |-> FALSE, notified |-> 0,
     arg |-> [path |-> <<>>, value |-> Undefined]]

SettingPaths ==
    {<<"conversion", "escapeLatexChars">>, <<"conversion", "citationStyle">>,
     <<"api", "timeout">>, <<"ui", "theme">>, <<"files", "downloadPath">>,
     <<"ui", "colour">>, <<"theme">>}

SettingValues ==
    {Bool("false"), Bool("true"), Num("5000"), Str("dark"), Str("acm"),
     Str("blue"), Str("/tmp"), Undefined}

\* set(path, value)
SMSet ==
    /\ \E path \in SettingPaths, value \in SettingValues :
          IF validateSetting(path, value)
          THEN \E changed \in {setNestedValue(settingsManager.settings, path,
                                               value)} :
                settingsManager' =
                    [settingsManager EXCEPT
                        !.settings = changed, !.stored = JSONstringify(changed),
                        !.call = "set", !.threw = FALSE,
                        !.notified = settingsManager.listeners,
                        !.arg = [path |-> path, value |-> value]]
          ELSE settingsManager' =
                    [settingsManager EXCEPT
                        !.call = "set", !.threw = TRUE, !.notified = 0,
                        !.arg = [path |-> path, value |-> value]]
    /\ UNCHANGED <<applied, progress, logger>>
    /\ UNCHANGED <<convVars, apiVars, runVars, callVars>>

\* importSettings(exportSettings())
SMImportExported ==
    /\ \E importedSettings \in {JSONparse(JSONstringify(settingsManager.settings))} :
          IF validateSettings(importedSettings)
          THEN \E merged \in {SpreadOver(defaultSettings, importedSettings)} :
                settingsManager' =
                    [settingsManager EXCEPT
                        !.settings = merged,
                        !.stored = JSONstringify(merged),
                        !.call = "importSettings", !.threw = FALSE,
                        !.notified =
                            settingsManager.listeners
                                * Cardinality(ChangedPaths(settingsManager.settings,
                                                           merged))]
          ELSE settingsManager' =
                    [settingsManager EXCEPT
                        !.call = "importSettings", !.threw = TRUE, !.notified = 0]
    /\ UNCHANGED <<applied, progress, logger>>
    /\ UNCHANGED <<convVars, apiVars, runVars, callVars>>

\* reset()
SMReset ==
    /\ settingsManager' =
            [settingsManager EXCEPT
                !.settings = defaultSettings,
                !.stored = JSONstringify(defaultSettings),
                !.call = "reset", !.threw = FALSE,
                !.notified =
                    settingsManager.listeners
                        * Cardinality(ChangedPaths(settingsManager.settings,
                                                   defaultSettings))]
    /\ UNCHANGED <<applied, progress, logger>>
    /\ UNCHANGED <<convVars, apiVars, runVars, callVars>>

SMAddListener ==
    /\ settingsManager.listeners < MaxListeners
    /\ settingsManager' =
            [settingsManager EXCEPT !.listeners = @ + 1, !.call = "addListener",
                                    !.threw = FALSE, !.notified = 0]
    /\ UNCHANGED <<applied, progress, logger>>
    /\ UNCHANGED <<convVars, apiVars, runVars, callVars>>

\* the utility objects are as constructed
UtilIdle ==
    /\ applied = NotApplied
    /\ progress = NewProgressManager
    /\ logger = NewLogger
    /\ settingsManager = NewSettingsManager

vars == <<convVars, apiVars, runVars, callVars, utilVars>>

Init == ConvInit /\ ApiIdle /\ RunIdle /\ CallIdle /\ UtilIdle

Next ==
    \/ XCStart
    \/ XCPrePass
    \/ XCLoopCallback
    \/ XCProcessRecord
    \/ XCFinish
    \/ CEStart
    \/ CEParseReference
    \/ CEFinish

Spec == Init /\ [][Next]_vars

InitApi == ApiIdle /\ ConvIdle /\ RunIdle /\ CallIdle /\ UtilIdle

NextApi ==
    \/ EnhanceCall
    \/ TimerFires
    \/ EnhanceRespond
    \/ TestCall
    \/ TestRespond
    \/ Tick

\* the API manager with its two callers
SpecApi == InitApi /\ [][NextApi]_vars

InitRuns == RunInit /\ ConvIdle /\ ApiIdle /\ CallIdle /\ UtilIdle

NextRuns ==
    \/ XCRun
    \/ CERun

\* conversion runs on one converter instance
SpecRuns == InitRuns /\ [][NextRuns]_vars

(***************************************************************************)
(* Locating the records of a document.  A document is the sequence of its  *)
(* elements in document order; an element has a tag, the position of its   *)
(* parent (0 for the document element) and the names of its attributes.    *)
(***************************************************************************)
MaxNodes == 3

DocTags == {"xml", "records", "record", "database", "EndNote", "item"}

RECURSIVE Ancestors(_, _)
Ancestors(parents, k) ==
    IF parents[k] = 0 THEN {}
    ELSE {parents[k]} \cup Ancestors(parents, parents[k])

\* the parent positions of the trees of n elements in document order
TreeShapes(n) ==
    {parents \in [1..n -> 0..(n - 1)] :
        /\ parents[1] = 0
        /\ \A k \in 2..n :
              /\ parents[k] \in 1..(k - 1)
              /\ parents[k] \in {k - 1} \cup Ancestors(parents, k - 1)}

\* the document of the elements with these tags and parents, the marked
\* one with a title attribute
XmlDoc(tags, parents, marked) ==
    [k \in DOMAIN tags |-> [tag |-> tags[k], parent |-> parents[k],
                            attrs |-> IF k = marked THEN {"title"} ELSE {}]]

\* the positions in a set, in document order
RECURSIVE InOrder(_, _)
InOrder(positions, n) ==
    IF n = 0 THEN <<>>
    ELSE InOrder(positions, n - 1) \o (IF n \in positions THEN <<n>> ELSE <<>>)

\* element k is matched by the first j tags of a path of descendant
\* combinators
RECURSIVE MatchesPath(_, _, _, _)
MatchesPath(xmlDoc, k, path, j) ==
    /\ xmlDoc[k].tag = path[j]
    /\ (j = 1 \/ \E a \in Ancestors([p \in 1..Len(xmlDoc) |-> xmlDoc[p].parent], k) :
                    MatchesPath(xmlDoc, a, path, j - 1))

\* xmlDoc.querySelectorAll of a path of tags
querySelectorAll(xmlDoc, path) ==
    InOrder({k \in 1..Len(xmlDoc) : MatchesPath(xmlDoc, k, path, Len(path))},
            Len(xmlDoc))

\* xmlDoc.querySelectorAll of a list of tags
querySelectorAllTags(xmlDoc, tags) ==
    InOrder({k \in 1..Len(xmlDoc) : xmlDoc[k].tag \in tags}, Len(xmlDoc))

\* xmlDoc.querySelectorAll of a list of *[attribute]
querySelectorAllAttrs(xmlDoc, attrs) ==
    InOrder({k \in 1..Len(xmlDoc) : xmlDoc[k].attrs \cap attrs # {}}, Len(xmlDoc))

possiblePaths ==
    << <<"record">>, <<"records", "record">>, <<"xml", "records", "record">>,
       <<"EndNote", "records", "record">>, <<"xml", "database", "record">> >>

\* a loop over the paths that adds the records of every path
RECURSIVE findRecordsOfAll(_, _)
findRecordsOfAll(xmlDoc, p) ==
    IF p > Len(possiblePaths) THEN <<>>
    ELSE querySelectorAll(xmlDoc, possiblePaths[p]) \o findRecordsOfAll(xmlDoc, p + 1)

\* the loop over possiblePaths from path p on
RECURSIVE findRecords(_, _)
findRecords(xmlDoc, p) ==
    IF p > Len(possiblePaths) THEN <<>>
    ELSE With(querySelectorAll(xmlDoc, possiblePaths[p]), LAMBDA foundRecords :
            IF Len(foundRecords) > 0 THEN foundRecords
            ELSE findRecords(xmlDoc, p + 1))

EntryTags == {"record", "reference", "citation", "item"}
EntryAttrs == {"title", "author", "journal"}

\* the entries of extractReferences
findEntries(xmlDoc) ==
    With(querySelectorAllTags(xmlDoc, EntryTags), LAMBDA entries :
        IF Len(entries) = 0 THEN querySelectorAllAttrs(xmlDoc, EntryAttrs)
        ELSE entries)

\* convertToBibtex locates the records of a document
LocateRecords ==
    /\ applied = NotApplied
    /\ \E n \in 1..MaxNodes : \E parents \in TreeShapes(n) :
       \E tags \in [1..n -> DocTags], marked \in 0..n :
       \E xmlDoc \in {XmlDoc(tags, parents, marked)} :
          applied' = [fn |-> "possiblePaths", xmlDoc |-> xmlDoc,
                      records |-> findRecords(xmlDoc, 1)]
    /\ UNCHANGED <<progress, logger, settingsManager>>
    /\ UNCHANGED <<convVars, apiVars, runVars, callVars>>

\* extractReferences locates the entries of a document
LocateEntries ==
    /\ applied = NotApplied
    /\ \E n \in 1..MaxNodes : \E parents \in TreeShapes(n) :
       \E tags \in [1..n -> DocTags], marked \in 0..n :
       \E xmlDoc \in {XmlDoc(tags, parents, marked)} :
          applied' = [fn |-> "extractReferences", xmlDoc |-> xmlDoc,
                      records |-> findEntries(xmlDoc)]
    /\ UNCHANGED <<progress, logger, settingsManager>>
    /\ UNCHANGED <<convVars, apiVars, runVars, callVars>>

InitLocate == UtilIdle /\ ConvIdle /\ ApiIdle /\ RunIdle /\ CallIdle

NextLocate ==
    \/ LocateRecords
    \/ LocateEntries

\* the records located in single documents
SpecLocate == InitLocate /\ [][NextLocate]_vars

(***************************************************************************)
(* The entry type of a record.  An element is given by the trimmed texts   *)
(* extractText finds for the selectors of determineBibTeXType.             *)
(***************************************************************************)
determineBibTeXType(element) ==
    With(toLowerCase(element.typeField), LAMBDA type :
        IF element.typeField # ""
              /\ (includes(type, "article") \/ includes(type, "journal"))
        THEN "article"
        ELSE IF element.typeField # "" /\ includes(type, "book") THEN "book"
        ELSE IF element.typeField # ""
              /\ (includes(type, "chapter") \/ includes(type, "inbook"))
        THEN "inbook"
        ELSE IF element.typeField # ""
              /\ (includes(type, "conference") \/ includes(type, "proceeding"))
        THEN "inproceedings"
        ELSE IF element.typeField # ""
              /\ (includes(type, "thesis") \/ includes(type, "dissertation"))
        THEN "phdthesis"
        ELSE IF element.typeField # ""
              /\ (includes(type, "report") \/ includes(type, "tech"))
        THEN "techreport"
        ELSE IF element.typeField # "" /\ includes(type, "manual") THEN "manual"
        ELSE IF element.typeField # ""
              /\ (includes(type, "web") \/ includes(type, "online"))
        THEN "misc"
        ELSE IF element.hasJournal # "" THEN "article"
        ELSE IF element.hasBooktitle # "" THEN "inproceedings"
        ELSE IF element.hasPublisher # "" THEN "book"
        ELSE "misc")

\* the texts of <type> elements
TypeFields ==
    {"", "Journal Article", "Review article", "Book", "Book Chapter", "Chapter",
     "Conference Paper", "Proceedings", "PhD Thesis", "Dissertation",
     "Technical Report", "Tech Note", "Manual", "Web Page", "Online", "Dataset"}

\* the names of <ref-type> elements
RefTypes ==
    {"", "Journal Article", "Book", "Book Section", "Conference Paper",
     "Conference Proceedings", "Conference Proceeding", "Thesis", "Report",
     "Web Page", "Patent", "Unpublished Work", "Manuscript", "Magazine Article",
     "Newspaper Article", "Electronic Article", "Generic", "Dataset"}

\* parseReference works out the type of an element
ClassifyElement ==
    /\ applied = NotApplied
    /\ \E typeField \in TypeFields, hasJournal \in {"", "Acta"},
          hasBooktitle \in {"", "Proc"}, hasPublisher \in {"", "Press"} :
       \E element \in {[typeField |-> typeField, hasJournal |-> hasJournal,
                         hasBooktitle |-> hasBooktitle,
                         hasPublisher |-> hasPublisher]} :
          applied' = [fn |-> "determineBibTeXType", element |-> element,
                      type |-> determineBibTeXType(element)]
    /\ UNCHANGED <<progress, logger, settingsManager>>
    /\ UNCHANGED <<convVars, apiVars, runVars, callVars>>

\* processRecord works out the type of a record
ClassifyRecord ==
    /\ applied = NotApplied
    /\ \E refType \in RefTypes, extractStyledText \in BOOLEAN :
       \E record \in {[RecBare EXCEPT !.refType = refType]} :
       \E cfg \in {[extractStyledText |-> extractStyledText]} :
          applied' = [fn |-> "entryTypeMap", record |-> record,
                      type |-> entryTypeMap(extractReferenceType(record, cfg))]
    /\ UNCHANGED <<progress, logger, settingsManager>>
    /\ UNCHANGED <<convVars, apiVars, runVars, callVars>>

InitClassify == UtilIdle /\ ConvIdle /\ ApiIdle /\ RunIdle /\ CallIdle

NextClassify ==
    \/ ClassifyElement
    \/ ClassifyRecord

\* the entry types of single records
SpecClassify == InitClassify /\ [][NextClassify]_vars

(***************************************************************************)
(* The entry ConversionEngine.convertToBibTeX writes for one reference,    *)
(* as the sequence of its fields, and the options the App hands over.  A   *)
(* reference is a function from RefFields to texts, "" for a field it      *)
(* does not have.                                                          *)
(***************************************************************************)
RefFields ==
    {"title", "author", "journal", "journaltitle", "booktitle", "year", "volume",
     "number", "pages", "endpages", "publisher", "address", "doi", "url", "isbn",
     "issn", "abstract", "keywords", "note", "custom"}

\* the position of the first occurrence of part in text, 0 when there is none
IndexOf(text, part) ==
    IF includes(text, part)
    THEN CHOOSE k \in 1..Len(text) :
            /\ SubSeq(text, k, k + Len(part) - 1) = part
            /\ \A j \in 1..(k - 1) : SubSeq(text, j, j + Len(part) - 1) # part
    ELSE 0

\* the first two pieces of pages.split("--"), pages holding a "--"
SplitPages(pages) ==
    With(IndexOf(pages, "--"), LAMBDA at :
    With(SubSeq(pages, at + 2, Len(pages)), LAMBDA rest :
        [start |-> SubSeq(pages, 1, at - 1),
         end |-> IF includes(rest, "--")
                 THEN SubSeq(rest, 1, IndexOf(rest, "--") - 1)
                 ELSE rest]))

applyCitationStyle(ref, options_) ==
    CASE options_.citationStyle = "acm" ->
            [ref EXCEPT
                !["journal"] = IF @ # "" THEN "ACM " \o @ ELSE @,
                !["booktitle"] = IF @ # "" THEN "Proceedings of " \o @ ELSE @]
      [] options_.citationStyle = "ieee" ->
            [ref EXCEPT
                !["journal"] = IF @ # "" /\ ~includes(@, "IEEE")
                               THEN "IEEE " \o @ ELSE @]
      [] options_.citationStyle = "biblatex" ->
            [ref EXCEPT
                !["journaltitle"] = IF ref["journal"] # "" THEN ref["journal"] ELSE @,
                !["journal"] = "",
                !["pages"] = IF includes(@, "--") THEN trim(SplitPages(@).start)
                             ELSE @,
                !["endpages"] = IF includes(ref["pages"], "--")
                                THEN trim(SplitPages(ref["pages"]).end) ELSE @]
      [] OTHER -> ref

baseOrder ==
    <<"title", "author", "journal", "journaltitle", "booktitle", "year", "volume",
      "number", "pages", "endpages", "publisher", "address", "doi", "url", "isbn",
      "issn">>

getFieldOrder(citationStyle) ==
    CASE citationStyle = "acm" ->
            <<"author", "title", "journal", "booktitle", "year", "volume", "number",
              "pages", "publisher", "doi", "url">>
      [] citationStyle = "ieee" ->
            <<"author", "title", "journal", "booktitle", "year", "volume", "number",
              "pages", "publisher", "doi">>
      [] citationStyle = "biblatex" ->
            <<"author", "title", "journaltitle", "booktitle", "year", "volume",
              "number", "pages", "endpages", "publisher", "address", "doi", "url",
              "isbn", "issn">>
      [] OTHER -> baseOrder

\* options.escapeLatex ? this.escapeLatexCharacters(value) : value
FieldValue(value, options_) ==
    IF options_.escapeLatex THEN escapeLatexCharacters(value) ELSE value

\* the fields written for the names of a list, from the k-th on
RECURSIVE FieldsFrom(_, _, _, _)
FieldsFrom(formattedRef, names, k, options_) ==
    IF k > Len(names) THEN <<>>
    ELSE (IF formattedRef[names[k]] # ""
          THEN <<[field |-> names[k],
                  value |-> FieldValue(formattedRef[names[k]], options_)]>>
          ELSE <<>>)
            \o FieldsFrom(formattedRef, names, k + 1, options_)

\* customFields.map(field => field.toLowerCase())
LowerNames(customFields) == [k \in DOMAIN customFields |-> toLowerCase(customFields[k])]

\* the callback of references.map in convertToBibTeX: the fields of the entry
bibtexEntry(ref, options_) ==
    With(applyCitationStyle(ref, options_), LAMBDA formattedRef :
        FieldsFrom(formattedRef, getFieldOrder(options_.citationStyle), 1, options_)
          \o (IF options_.includeAbstract
               THEN FieldsFrom(formattedRef, <<"abstract">>, 1, options_) ELSE <<>>)
          \o (IF options_.includeKeywords
               THEN FieldsFrom(formattedRef, <<"keywords">>, 1, options_) ELSE <<>>)
          \o (IF options_.includeNotes
               THEN FieldsFrom(formattedRef, <<"note">>, 1, options_) ELSE <<>>)
          \o FieldsFrom(formattedRef, LowerNames(options_.customFields), 1, options_))

\* what the fields of parseReference hold for an element: the optional ones
\* only when the options include them
ReferenceOf(texts, options_) ==
    [f \in RefFields |->
        IF \/ f = "abstract" /\ ~options_.includeAbstract
           \/ f = "keywords" /\ ~options_.includeKeywords
           \/ f = "note" /\ ~options_.includeNotes
           \/ f = "custom" /\ "custom" \notin Range(LowerNames(options_.customFields))
        THEN "" ELSE texts[f]]

\* element.checked of a control that may be missing from the page
Checked(control) == control = "checked"

\* select.value of a select that may be missing from the page
ValueOf(select) == IF select = "absent" THEN "" ELSE select

\* App.getConversionOptions: a || b || c is the first truthy operand, else c
getConversionOptions(ui) ==
    [citationStyle |->
        IF ValueOf(ui.citationStyle) # "" THEN ValueOf(ui.citationStyle)
        ELSE IF ValueOf(ui.mobileCitationStyle) # ""
        THEN ValueOf(ui.mobileCitationStyle)
        ELSE "standard",
     escapeLatex |->
        Checked(ui.escapeLatex) \/ Checked(ui.mobileEscapeLatex) \/ TRUE,
     suppressWarnings |->
        Checked(ui.suppressWarnings) \/ Checked(ui.mobileSuppressWarnings) \/ FALSE,
     includeAbstract |-> TRUE,
     includeKeywords |-> TRUE,
     includeNotes |-> TRUE,
     preserveFormatting |-> FALSE,
     customFields |-> <<>>]

\* the texts of an element with every field
FullTexts ==
    [f \in RefFields |->
        CASE f = "title" -> "A & B"
          [] f = "author" -> "Smith"
          [] f = "journal" -> "Acta"
          [] f = "journaltitle" -> ""
          [] f = "booktitle" -> ""
          [] f = "year" -> "2023"
          [] f = "volume" -> "7"
          [] f = "number" -> "2"
          [] f = "pages" -> "1--9"
          [] f = "endpages" -> ""
          [] f = "publisher" -> "Press"
          [] f = "address" -> "Paris"
          [] f = "doi" -> "10.1/x_y"
          [] f = "url" -> "http://x.org"
          [] f = "isbn" -> "12"
          [] f = "issn" -> "34"
          [] f = "abstract" -> "50% of it"
          [] f = "keywords" -> ""
          [] f = "note" -> "seen"
          [] f = "custom" -> "c#1"]

\* the texts of the elements: some fields of FullTexts left out
TextsWithout(absent, journal) ==
    [f \in RefFields |-> IF f \in absent THEN ""
                         ELSE IF f = "journal" THEN journal ELSE FullTexts[f]]

OptionalFields == {"address", "url", "isbn", "issn", "abstract"}
Journals == {"", "Acta", "IEEE Trans"}
CitationStyles == {"standard", "acm", "ieee", "biblatex", "apa"}
Controls == {"absent", "checked", "unchecked"}

\* convertXMLToBibTeX is called with options of the caller's choice
FormatReference ==
    /\ applied = NotApplied
    /\ \E absent \in SUBSET OptionalFields, journal \in Journals,
          citationStyle \in CitationStyles, escapeLatex_ \in BOOLEAN,
          includeNotes \in BOOLEAN, customFields \in {<<>>, <<"Custom">>} :
       \E options_ \in {[citationStyle |-> citationStyle,
                          escapeLatex |-> escapeLatex_, suppressWarnings |-> FALSE,
                          includeAbstract |-> TRUE, includeKeywords |-> FALSE,
                          includeNotes |-> includeNotes,
                          preserveFormatting |-> FALSE,
                          customFields |-> customFields]} :
       \E ref \in {ReferenceOf(TextsWithout(absent, journal), options_)} :
          applied' = [fn |-> "convertToBibTeX", options |-> options_,
                      unchecked |-> ~escapeLatex_, ref |-> ref,
                      entry |-> bibtexEntry(ref, options_)]
    /\ UNCHANGED <<progress, logger, settingsManager>>
    /\ UNCHANGED <<convVars, apiVars, runVars, callVars>>

\* App.handleConversion: the options come from the controls of the page
HandleConversion ==
    /\ applied = NotApplied
    /\ \E absent \in SUBSET OptionalFields, journal \in Journals,
          citationStyle \in CitationStyles \cup {"absent"},
          escapeControl \in Controls, mobileEscapeControl \in Controls :
       \E ui \in {[citationStyle |-> citationStyle, mobileCitationStyle |-> "absent",
                     escapeLatex |-> escapeControl,
                     mobileEscapeLatex |-> mobileEscapeControl,
                     suppressWarnings |-> "unchecked",
                     mobileSuppressWarnings |-> "absent"]} :
       \E options_ \in {getConversionOptions(ui)} :
       \E ref \in {ReferenceOf(TextsWithout(absent, journal), options_)} :
          applied' = [fn |-> "handleConversion", ui |-> ui, options |-> options_,
                      unchecked |-> /\ "unchecked" \in {escapeControl,
                                                          mobileEscapeControl}
                                    /\ ~Checked(escapeControl)
                                    /\ ~Checked(mobileEscapeControl),
                      ref |-> ref, entry |-> bibtexEntry(ref, options_)]
    /\ UNCHANGED <<progress, logger, settingsManager>>
    /\ UNCHANGED <<convVars, apiVars, runVars, callVars>>

InitFormat == UtilIdle /\ ConvIdle /\ ApiIdle /\ RunIdle /\ CallIdle

NextFormat ==
    \/ FormatReference
    \/ HandleConversion

\* the entries of single references
SpecFormat == InitFormat /\ [][NextFormat]_vars

InitProgress == UtilIdle /\ ConvIdle /\ ApiIdle /\ RunIdle /\ CallIdle

NextProgress ==
    \/ PMAddCallback
    \/ PMRemoveCallback
    \/ PMStart
    \/ PMUpdate
    \/ PMIncrement
    \/ PMComplete
    \/ PMCancel
    \/ PMReset

\* the calls made on one ProgressManager
SpecProgress == InitProgress /\ [][NextProgress]_vars

InitLogger == UtilIdle /\ ConvIdle /\ ApiIdle /\ RunIdle /\ CallIdle

NextLogger ==
    \/ LogCall
    \/ LogClear
    \/ LogSetMaxLogs

\* the calls made on the Logger
SpecLogger == InitLogger /\ [][NextLogger]_vars

InitSettings == UtilIdle /\ ConvIdle /\ ApiIdle /\ RunIdle /\ CallIdle

NextSettings ==
    \/ SMSet
    \/ SMImportExported
    \/ SMReset
    \/ SMAddListener

\* the calls made on the SettingsManager
SpecSettings == InitSettings /\ [][NextSettings]_vars

InitScore == UtilIdle /\ ConvIdle /\ ApiIdle /\ RunIdle /\ CallIdle

NextScore ==
    \/ ScoreSemanticScholar
    \/ ScoreCrossref

\* match scores of single candidates
SpecScore == InitScore /\ [][NextScore]_vars

InitRequest == CallIdle /\ ConvIdle /\ ApiIdle /\ RunIdle /\ UtilIdle

NextRequest ==
    \/ MRCall
    \/ MRWake
    \/ MRHeaders
    \/ MRAbort
    \/ MRBody
    \/ MRReturn
    \/ MRTick

\* time passes, due timers fire, what the provider sends arrives and is read
SpecRequest ==
    /\ InitRequest /\ [][NextRequest]_vars
    /\ WF_vars(MRTick) /\ WF_vars(MRWake) /\ WF_vars(MRHeaders)
    /\ WF_vars(MRAbort) /\ WF_vars(MRBody) /\ WF_vars(MRReturn)

(***************************************************************************)
(* Properties of a conversion run.                                         *)
(***************************************************************************)
\* the entries and the errors of the run, whichever converter runs it
EntryKeys ==
    IF impl = "XMLConverter"
    THEN [k \in DOMAIN bibtexEntries |-> bibtexEntries[k].citationKey]
    ELSE [k \in DOMAIN references |-> references[k].id]
EntryIndexes ==
    IF impl = "XMLConverter"
    THEN {bibtexEntries[k].index : k \in DOMAIN bibtexEntries}
    ELSE {references[k].index : k \in DOMAIN references}
RunErrors == IF impl = "XMLConverter" THEN conversionErrors ELSE warnings
ReturnedIndexes == {returned.entries[k].index : k \in DOMAIN returned.entries}

\* C1: in the output of one conversion run no two emitted entries carry the
\* same citation key (two records with the same author, year and title get two
\* keys; a key with the record-index suffix equals no other record's key).
C1_CitationKeysUnique ==
    \A a, b \in DOMAIN EntryKeys : a # b => EntryKeys[a] # EntryKeys[b]

\* C2: a record with neither a title nor an author yields no entry: every
\* entry of the run has a non-empty title or a non-empty author.
C2_EntryHasTitleOrAuthor ==
    /\ \A k \in DOMAIN bibtexEntries :
          bibtexEntries[k].fields["title"] # "" \/ bibtexEntries[k].fields["author"] # ""
    /\ \A k \in DOMAIN references :
          references[k].title # "" \/ references[k].author # ""

\* C3: after an invocation of the progress callback that returned false (the
\* one before the pre-pass included) no record is processed, and the returned
\* output holds exactly the entries produced before that invocation.
C3_CallbackFalseStopsRecords ==
    \A p \in DOMAIN events :
        (events[p].e = "cb" /\ ~events[p].flag) =>
            /\ \A q \in DOMAIN events : q > p => events[q].e # "proc"
            /\ returned.kind = "bibtex" =>
                  ReturnedIndexes =
                      {events[q].n : q \in {r \in 1..(p - 1) :
                            events[r].e = "proc" /\ ~events[r].flag}}

\* C4: when the XML does not parse or holds no record, the conversion call
\* does not throw; it returns a result without entries and with exactly one
\* top-level error.
C4_FatalInputReturnsOneError ==
    (pc = "done" /\ (~xmlData.parses \/ Len(xmlData.records) = 0)) =>
        /\ returned.kind # "threw"
        /\ returned.entries = <<>>
        /\ Len(RunErrors) = 1

\* C5: when processing record i throws, record i contributes no entry, one
\* warning naming its ordinal is recorded, nothing is thrown to the caller,
\* and the other records are still processed and their entries emitted.
C5_ThrowingRecordIsSkipped ==
    LET threw(j) == \E p \in DOMAIN events :
                        events[p].e = "proc" /\ events[p].n = j /\ events[p].flag
        processed(j) == \E p \in DOMAIN events : events[p].e = "proc" /\ events[p].n = j
        cancelled == \E p \in DOMAIN events :
                        events[p].e = "cb" /\ events[p].at = "loop" /\ ~events[p].flag
        hasEntry(j) ==
            IF impl = "XMLConverter" THEN TRUE
            ELSE records[j + 1].title # "" \/ records[j + 1].authors # <<>>
    IN /\ \A j \in 0..(Len(records) - 1) :
            threw(j) =>
                /\ j \notin EntryIndexes
                /\ Cardinality({k \in DOMAIN RunErrors :
                        RunErrors[k] = [kind |-> "record", ordinal |-> j + 1]}) = 1
                /\ returned.kind # "threw"
       /\ (pc = "done" /\ records # <<>> /\ ~cancelled) =>
            \A j \in 0..(Len(records) - 1) :
                /\ processed(j)
                /\ (~threw(j) /\ hasEntry(j)) => j \in ReturnedIndexes
                /\ j \in ReturnedIndexes => ~threw(j)

\* record 1 threw, the run ended, and record 2 has its entry in the output
C5_Witness ==
    /\ pc = "done"
    /\ \E p \in DOMAIN events :
          events[p].e = "proc" /\ events[p].n = 0 /\ events[p].flag
    /\ 1 \in ReturnedIndexes
    /\ Len(RunErrors) = 1

(***************************************************************************)
(* Properties of the enhancement pipeline.                                 *)
(***************************************************************************)
\* the answer holds a candidate whose score exceeds the threshold
AcceptedMatch(resp) ==
    resp.kind = "ok" /\ \E k \in DOMAIN resp.cands : resp.cands[k].score > MatchThreshold

MaxScore(cands) ==
    CHOOSE m \in {cands[k].score : k \in DOMAIN cands} :
        \A k \in DOMAIN cands : cands[k].score <= m

\* C6: enhanceReference does not throw whatever the providers answer; a
\* provider that fails or finds no match is followed by the next provider;
\* when no provider yields an accepted match the FieldSet after the merge is
\* the FieldSet before, and the record still produces its entry.
C6_EnhanceAbsorbsFailures ==
    /\ ~enh.threw
    /\ (enh.ssResp.kind # "none" /\ ~AcceptedMatch(enh.ssResp)) =>
            enh.queried = <<"Semantic Scholar", "Crossref">>
    /\ (enh.recNo > 0 /\ ~enh.active
            /\ ~AcceptedMatch(enh.ssResp) /\ ~AcceptedMatch(enh.crResp)) =>
            /\ enh.source = "none"
            /\ enh.merged = enh.fields
            /\ ~enh.entryThrew

\* both providers failed and the call returned the FieldSet as it was
C6_Witness ==
    /\ enh.recNo > 0 /\ ~enh.active
    /\ enh.ssResp.kind = "timeout"
    /\ enh.crResp.kind = "http"
    /\ enh.fields.v["title"] # ""
    /\ enh.merged = enh.fields

\* C7: of two consecutive requests sent through makeRequest, the later one is
\* sent no earlier than rateLimitDelay after the earlier one.
C7_RequestsSpacedByDelay ==
    sendLog.prev >= 0 => sendLog.last - sendLog.prev >= RateLimitDelay

\* C8: at no time are two provider requests in flight together.
C8_OneRequestInFlight ==
    Cardinality({c \in Callers : req[c].pc = "fetch"}) <= 1

\* what a merged value can be when it comes from the answer resp
ValuesFrom(resp, fields) ==
    UNION {LET c == resp.cands[k]
               note == "Cited by " \o NatToStr(c.citationCount) \o " (Semantic Scholar)"
           IN {c.title, c.volume, c.doi}
                \cup (IF c.citationCount >= 0
                      THEN {note, fields.v["note"] \o "; " \o note} ELSE {})
           : k \in DOMAIN resp.cands}

\* C9: Semantic Scholar is consulted first and Crossref second; Crossref is
\* queried if and only if Semantic Scholar produced no accepted match; the
\* merged fields all come from the one provider whose match was accepted.
C9_ProviderOrder ==
    /\ enh.queried \in {<<>>, <<"Semantic Scholar">>, <<"Semantic Scholar", "Crossref">>}
    /\ enh.ssResp.kind = "none" => Len(enh.queried) <= 1
    /\ enh.ssResp.kind # "none" =>
            (Len(enh.queried) = 2 <=> ~AcceptedMatch(enh.ssResp))
    /\ (enh.recNo > 0 /\ ~enh.active) =>
            /\ enh.source = "Semantic Scholar" => AcceptedMatch(enh.ssResp)
            /\ enh.source = "Crossref" =>
                    ~AcceptedMatch(enh.ssResp) /\ AcceptedMatch(enh.crResp)
            /\ \A key \in FieldNames :
                  enh.merged.v[key] # enh.fields.v[key] =>
                      /\ enh.source # "none"
                      /\ enh.merged.v[key] \in
                            ValuesFrom(IF enh.source = "Crossref" THEN enh.crResp
                                       ELSE enh.ssResp, enh.fields)

\* Semantic Scholar answered without an accepted match and Crossref's match
\* was merged
C9_Witness ==
    /\ enh.recNo > 0 /\ ~enh.active
    /\ enh.ssResp.kind = "ok"
    /\ enh.source = "Crossref"
    /\ enh.merged.v["doi"] = "10.1/b"
    /\ enh.merged # enh.fields

\* C10: findBestMatch and findBestCrossrefMatch return the candidate with the
\* highest score and only when that score is above 0.7: a top score of exactly
\* 0.70 gives no match, 0.71 is accepted, and no other candidate is returned.
C10_BestMatchAboveThreshold ==
    /\ (enh.ssResp.kind = "ok" /\ Len(enh.ssResp.cands) > 0) =>
            /\ enh.ssPick = 0 <=> MaxScore(enh.ssResp.cands) <= 700
            /\ enh.ssPick > 0 =>
                    enh.ssResp.cands[enh.ssPick].score = MaxScore(enh.ssResp.cands)
    /\ (enh.crResp.kind = "ok" /\ Len(enh.crResp.cands) > 0) =>
            /\ enh.crPick = 0 <=> MaxScore(enh.crResp.cands) <= 700
            /\ enh.crPick > 0 =>
                    enh.crResp.cands[enh.crPick].score = MaxScore(enh.crResp.cands)

\* a top score of exactly 0.70 was rejected and one of 0.71 accepted, ahead
\* of a candidate with a lower score
C10_Witness ==
    /\ enh.ssResp.kind = "ok" /\ Len(enh.ssResp.cands) > 0
    /\ MaxScore(enh.ssResp.cands) = 700 /\ enh.ssPick = 0
    /\ enh.crResp.kind = "ok" /\ Len(enh.crResp.cands) > 1
    /\ enh.crPick > 0 /\ enh.crResp.cands[enh.crPick].score = 710

\* prefix is an initial part of text
IsPrefix(prefix, text) ==
    Len(prefix) <= Len(text) /\ SubSeq(text, 1, Len(prefix)) = prefix

\* C11: after the enhancement merge every field that was non-empty in the
\* original FieldSet still has its original value, the note excepted, which
\* keeps its original text as a prefix; only a field that was empty or absent
\* receives a provider value.
C11_MergeKeepsNonEmptyFields ==
    (enh.recNo > 0 /\ ~enh.active) =>
        \A key \in FieldNames :
            /\ (enh.fields.v[key] # "" /\ key # "note") =>
                    enh.merged.v[key] = enh.fields.v[key]
            /\ enh.fields.v["note"] # "" =>
                    IsPrefix(enh.fields.v["note"], enh.merged.v["note"])
            /\ (enh.merged.v[key] # enh.fields.v[key] /\ key # "note") =>
                    enh.fields.v[key] = ""

\* a match was merged into a FieldSet with a title and a note: the title
\* differs from the provider's and is kept, the empty doi is filled
C11_Witness ==
    /\ enh.recNo > 0 /\ ~enh.active
    /\ enh.source = "Crossref"
    /\ enh.fields.v["title"] # ""
    /\ enh.fields.v["title"] # enh.enhanced.v["title"]
    /\ enh.crResp.cands[enh.crPick].title # enh.fields.v["title"]
    /\ enh.merged.v["title"] = enh.fields.v["title"]
    /\ enh.fields.v["doi"] = "" /\ enh.merged.v["doi"] # ""
\* C12: with enhancement disabled, a run on an instance that has made runs
\* before returns, the timestamp line apart, what a new converter returns for
\* the same XML text and options
C12_RunsAreRepeatable ==
    lastRun.ran => lastRun.output = lastRun.fresh

\* a run that produced entries on an instance whose earlier run had left
\* journals and publishers behind
C12_Witness ==
    /\ lastRun.ran /\ runImpl = "XMLConverter"
    /\ lastRun.before.journals # <<>> /\ lastRun.before.publishers # <<>>
    /\ lastRun.output.kind = "bibtex" /\ lastRun.output.entries # <<>>
    /\ lastRun.output = lastRun.fresh

\* C13: with LaTeX escaping enabled every emitted title is the source title
\* with each special character escaped once: &, %, _ preceded by one
\* backslash, ~, ^ and the backslash replaced by their macro, and nothing
\* that a replacement put in escaped again
C13_EscapedExactlyOnce ==
    (impl = "XMLConverter" /\ config.escapeLatexChars) =>
        \A k \in 1..Len(bibtexEntries) :
            LET source == trim(CollapseSpaces(records[bibtexEntries[k].index + 1].title))
            IN source # "" =>
                bibtexEntries[k].fields.title =
                    formatFieldValue(escapeLatexCharacters(source), "title")

\* the names a run on doc reads from the elements of one kind ("journal" or
\* "publisher") of its records
ObservedNames(doc, kind, cfg) ==
    {trim(extractElement(doc.records[k][kind], cfg).text) :
        k \in 1..Len(doc.records)} \ {""}

\* the errors a run on doc records
ObservedErrors(doc) ==
    IF ~doc.parses THEN {[kind |-> "parse", ordinal |-> 0]}
    ELSE IF Len(doc.records) = 0 THEN {[kind |-> "norecords", ordinal |-> 0]}
    ELSE {}

\* C14: after any sequence of runs on one instance the registry (journals,
\* publishers, journalNameToKey) and the error list hold only what the most
\* recent run observed
C14_RegistryScopedToRun ==
    (lastRun.ran /\ runImpl = "XMLConverter") =>
        /\ Len(xc.conversionErrors) <= Cardinality(ObservedErrors(lastRun.doc))
        /\ \A k \in 1..Len(xc.conversionErrors) :
                xc.conversionErrors[k] \in ObservedErrors(lastRun.doc)
        /\ \A k \in 1..Len(xc.journalNameToKey) :
                xc.journalNameToKey[k].key
                    \in ObservedNames(lastRun.doc, "journal", runConfig)
        /\ \A k \in 1..Len(xc.journals) :
                xc.journals[k].val \in ObservedNames(lastRun.doc, "journal", runConfig)
        /\ \A k \in 1..Len(xc.publishers) :
                xc.publishers[k].val
                    \in ObservedNames(lastRun.doc, "publisher", runConfig)

\* a run that registered names on an instance whose earlier run had failed
C14_Witness ==
    /\ lastRun.ran /\ runImpl = "XMLConverter"
    /\ lastRun.before.conversionErrors # <<>>
    /\ xc.conversionErrors = <<>> /\ xc.journals # <<>> /\ xc.publishers # <<>>
    /\ Len(lastRun.doc.records) = MaxRunRecords

\* the keys under which the object holds the value val
KeysOf(obj, val) == {obj[k].key : k \in {n \in 1..Len(obj) : obj[n].val = val}}

\* C15: with useStringDefinitions enabled, every emitted entry whose journal
\* or publisher value is a name the pre-pass registered carries the registry
\* key of that name, not the literal name
C15_RegisteredNameEmitsKey ==
    (lastRun.ran /\ runImpl = "XMLConverter" /\ runConfig.useStringDefinitions) =>
        \A k \in 1..Len(lastRun.output.entries) :
            LET entry == lastRun.output.entries[k]
            IN /\ HasKey(xc.journalNameToKey, entry.journalValue) =>
                    entry.journal = GetKey(xc.journalNameToKey, entry.journalValue)
               /\ KeysOf(xc.publishers, entry.publisherValue) # {} =>
                    entry.publisher \in KeysOf(xc.publishers, entry.publisherValue)

\* C16: extraction never changes a located record: after the pre-pass, the
\* progress-title lookups and the extract calls of a run every record is as
\* the parser delivered it, so a second extraction returns the same text
C16_ExtractionLeavesRecord ==
    (lastRun.ran /\ runImpl = "XMLConverter" /\ lastRun.output.kind = "bibtex") =>
        lastRun.recs = lastRun.doc.records

\* C17: after the pre-pass every distinct journal or publisher name observed
\* in the document has a key, and the registry entry under that key stores
\* that same name
C17_OneEntryPerObservedName ==
    (lastRun.ran /\ runImpl = "XMLConverter" /\ runConfig.useStringDefinitions
        /\ lastRun.output.kind = "bibtex") =>
        /\ \A name \in ObservedNames(lastRun.doc, "journal", runConfig) :
              /\ HasKey(xc.journalNameToKey, name)
              /\ HasKey(xc.journals, GetKey(xc.journalNameToKey, name))
              /\ GetKey(xc.journals, GetKey(xc.journalNameToKey, name)) = name
        /\ \A name \in ObservedNames(lastRun.doc, "publisher", runConfig) :
              /\ HasKey(xc.publishers, generatePublisherKey(name))
              /\ GetKey(xc.publishers, generatePublisherKey(name)) = name

\* C18: the string-definitions block of an output defines every key once,
\* journal and publisher definitions taken together, and no key is empty
C18_OneDefinitionPerKey ==
    (lastRun.ran /\ runImpl = "XMLConverter") =>
        LET defs == lastRun.output.stringDefs
        IN /\ \A m, n \in 1..Len(defs) : defs[m].key = defs[n].key => m = n
           /\ \A n \in 1..Len(defs) : defs[n].key # ""

\* C19: a provider call that timed out is a failure and is not made again:
\* one enhanceReference call sends at most one request to each provider, at
\* most two for a record, and takes no result from a provider that timed out
C19_NoRetryAfterTimeout ==
    /\ Len(enh.queried) <= 2
    /\ \A m, n \in 1..Len(enh.queried) : enh.queried[m] = enh.queried[n] => m = n
    /\ enh.ssResp.kind = "timeout" => enh.source # "Semantic Scholar"
    /\ enh.crResp.kind = "timeout" =>
            ~enh.active /\ enh.source = "none" /\ enh.enhanced = NoResult

\* an enhanceReference call has returned after both providers timed out
C19_Witness ==
    /\ ~enh.active /\ enh.recNo > 0
    /\ enh.ssResp.kind = "timeout" /\ enh.crResp.kind = "timeout"
    /\ enh.queried = <<"Semantic Scholar", "Crossref">>

\* C20: every makeRequest call eventually completes, with the payload or a
\* throw; when the provider never answers, or stalls after the headers while
\* the body is read, it ends as 'Request timeout'
C20_RequestEventuallyCompletes ==
    /\ (call.pc \in {"rateLimit", "fetch", "body"})
            ~> (call.pc \in {"returned", "threw"})
    /\ (call.pc = "fetch"
            /\ (call.plan.headersAfter < 0
                    \/ (call.plan.ok /\ call.plan.body = "stalls")))
            ~> (call.pc = "threw" /\ call.outcome = "Request timeout")

(***************************************************************************)
(* The match score.                                                        *)
(***************************************************************************)
\* the lower-cased whitespace-split tokens of a text
Tokens(text) == Range(SplitSpaces(toLowerCase(text)))

\* a score has been worked out
Scored == applied.fn \in {"calculateMatchScore", "calculateCrossrefMatchScore"}

\* the text of the candidate's authors, joined by blanks
CandidateAuthors == Join(applied.result.authors.names, " ")

\* the factors for which both the candidate and the record have a value
TitleGiven == applied.result.title # "" /\ applied.targetTitle # ""
AuthorsGiven == applied.result.authors.present /\ applied.targetAuthors # ""
YearGiven == applied.result.year # 0 /\ applied.targetYear # ""

\* 1 when the years differ by at most one, else 0
YearCloseness ==
    IF \E y \in {applied.result.year - 1, applied.result.year,
                  applied.result.year + 1} : NatToStr(y) = applied.targetYear
    THEN 1 ELSE 0

\* the score is num / den
ScoreIs(num, den) == applied.score.num * den = num * applied.score.den

\* the C21 statement as written: the score is 0.6 t + 0.3 a + 0.1 y, a
\* factor that is lacking adding nothing, and lies within [0, 1]
C21_ScoreIsWeightedSum ==
    Scored =>
        \E tI \in {Cardinality(Tokens(applied.result.title)
                        \cap Tokens(applied.targetTitle))} :
        \E tU \in {Cardinality(Tokens(applied.result.title)
                        \cup Tokens(applied.targetTitle))} :
        \E aI \in {Cardinality(Tokens(CandidateAuthors)
                        \cap Tokens(applied.targetAuthors))} :
        \E aU \in {Cardinality(Tokens(CandidateAuthors)
                        \cup Tokens(applied.targetAuthors))} :
            /\ ScoreIs((IF TitleGiven THEN 6 * tI * aU ELSE 0)
                            + (IF AuthorsGiven THEN 3 * aI * tU ELSE 0)
                            + (IF YearGiven THEN YearCloseness * tU * aU ELSE 0),
                       10 * tU * aU)
            /\ 0 <= applied.score.num
            /\ applied.score.num <= applied.score.den

\* C21: the score is the weighted mean, with the weights 0.6, 0.3 and 0.1,
\* of the title similarity, the author similarity and the year closeness
\* over the factors that both the candidate and the record have, and 0 when
\* they have none in common; it lies within [0, 1]
C21_ScoreIsWeightedMean ==
    Scored =>
        \E tI \in {Cardinality(Tokens(applied.result.title)
                        \cap Tokens(applied.targetTitle))} :
        \E tU \in {Cardinality(Tokens(applied.result.title)
                        \cup Tokens(applied.targetTitle))} :
        \E aI \in {Cardinality(Tokens(CandidateAuthors)
                        \cap Tokens(applied.targetAuthors))} :
        \E aU \in {Cardinality(Tokens(CandidateAuthors)
                        \cup Tokens(applied.targetAuthors))} :
        \E weights \in {(IF TitleGiven THEN 6 ELSE 0)
                            + (IF AuthorsGiven THEN 3 ELSE 0)
                            + (IF YearGiven THEN 1 ELSE 0)} :
            /\ weights = 0 => applied.score.num = 0
            /\ weights > 0 =>
                    ScoreIs((IF TitleGiven THEN 6 * tI * aU ELSE 0)
                                + (IF AuthorsGiven THEN 3 * aI * tU ELSE 0)
                                + (IF YearGiven THEN YearCloseness * tU * aU ELSE 0),
                            weights * tU * aU)
            /\ 0 <= applied.score.num
            /\ applied.score.num <= applied.score.den
            /\ applied.score.den > 0

\* a candidate without authors and year whose title shares two of the
\* record's four words has been scored 2/4
C21_Witness ==
    /\ Scored
    /\ applied.result.title = "a study"
    /\ applied.targetTitle = "A Study of Things"
    /\ ~applied.result.authors.present
    /\ applied.result.year = 0
    /\ applied.score.num * 2 = applied.score.den

(***************************************************************************)
(* The record locator.                                                     *)
(***************************************************************************)
\* the elements each pattern of the locator that was applied matches, in its
\* order of priority
PatternMatches ==
    IF applied.fn = "possiblePaths"
    THEN [p \in 1..Len(possiblePaths) |->
            querySelectorAll(applied.xmlDoc, possiblePaths[p])]
    ELSE << querySelectorAllTags(applied.xmlDoc, EntryTags),
            querySelectorAllAttrs(applied.xmlDoc, EntryAttrs) >>

Located == applied.fn \in {"possiblePaths", "extractReferences"}

\* C22: the located records are exactly the matches of the first pattern, in
\* the order of priority, that matches an element; an element that only
\* another pattern matches is not among them, and none occurs twice
C22_FirstPatternWins ==
    Located =>
        \E found \in {PatternMatches} :
            /\ \/ /\ \A p \in DOMAIN found : found[p] = <<>>
                  /\ applied.records = <<>>
               \/ \E p \in DOMAIN found :
                    /\ found[p] # <<>>
                    /\ \A j \in 1..(p - 1) : found[j] = <<>>
                    /\ applied.records = found[p]
                    /\ \A j \in DOMAIN found :
                          \A e \in Range(found[j]) \ Range(found[p]) :
                              e \notin Range(applied.records)
            /\ \A a, b \in DOMAIN applied.records :
                  a < b => applied.records[a] < applied.records[b]

\* the entries of <xml title=".."><record/><record/></xml> are the two
\* records, without the element that only the attribute pattern matches
C22_Witness ==
    /\ applied.fn = "extractReferences"
    /\ Len(applied.xmlDoc) = 3
    /\ applied.xmlDoc[1].attrs = {"title"}
    /\ applied.xmlDoc[2].tag = "record" /\ applied.xmlDoc[3].tag = "record"
    /\ applied.xmlDoc[1].tag = "xml"
    /\ applied.records = <<2, 3>>

(***************************************************************************)
(* The entry classifier.                                                   *)
(***************************************************************************)
\* the fixed entry types
EntryTypes ==
    {"article", "book", "incollection", "inproceedings", "proceedings",
     "phdthesis", "techreport", "online", "patent", "unpublished", "misc"}

\* the ordered table of type names and the entry types they stand for
TypeTable ==
    << [names |-> {"article", "journal"}, types |-> {"article"}],
       [names |-> {"book"}, types |-> {"book"}],
       [names |-> {"chapter", "inbook"}, types |-> {"incollection"}],
       [names |-> {"conference", "proceeding"}, types |-> {"inproceedings"}],
       [names |-> {"thesis", "dissertation"}, types |-> {"phdthesis"}],
       [names |-> {"report", "tech"}, types |-> {"techreport"}],
       [names |-> {"web", "online"}, types |-> {"online", "misc"}] >>

\* row r of the table names a part of the lower-cased type field
RowMatches(r) ==
    \E name \in TypeTable[r].names :
        includes(toLowerCase(applied.element.typeField), name)

\* C23: the type of an element is that of the first row of the table which
\* names a part of its lower-cased type field; when no row does it is
\* article with a journal, else inproceedings with a book title, else book
\* with a publisher, else misc; the type of every record is one of the
\* fixed entry types
C23_TypeFollowsTable ==
    /\ applied.fn = "determineBibTeXType" =>
          /\ \A r \in DOMAIN TypeTable :
                (RowMatches(r) /\ \A q \in 1..(r - 1) : ~RowMatches(q))
                    => applied.type \in TypeTable[r].types
          /\ (\A r \in DOMAIN TypeTable : ~RowMatches(r)) =>
                applied.type =
                    IF applied.element.hasJournal # "" THEN "article"
                    ELSE IF applied.element.hasBooktitle # "" THEN "inproceedings"
                    ELSE IF applied.element.hasPublisher # "" THEN "book"
                    ELSE "misc"
    /\ applied.fn \in {"determineBibTeXType", "entryTypeMap"} =>
          applied.type \in EntryTypes

(***************************************************************************)
(* The surname of a citation key.                                          *)
(***************************************************************************)
\* the text before the first comma of a text with a comma
BeforeComma(text) == SubSeq(text, 1, (CHOOSE k \in 1..Len(text) :
                        /\ CharAt(text, k) = ","
                        /\ \A j \in 1..(k - 1) : CharAt(text, j) # ",") - 1)

\* the surname of an author: the text before the comma of 'Last, First',
\* else the last whitespace-separated token
Surname(author) ==
    IF includes(author, ",") THEN trim(BeforeComma(author))
    ELSE SplitSpaces(trim(author))[Len(SplitSpaces(trim(author)))]

\* C24: the key of an entry whose record has a first author and a year
\* starts, letter case aside, with the surname of that author followed by
\* the year: 'Smith, John' of 2023 gets a key that starts with Smith2023
C24_KeyStartsWithSurname ==
    \A k \in DOMAIN EntryKeys :
        \E record \in {records[(IF impl = "XMLConverter"
                                 THEN bibtexEntries[k].index
                                 ELSE references[k].index) + 1]} :
            (record.authors # <<>> /\ Len(record.year) = 4 /\ AllDigits(record.year))
                => IsPrefix(toLowerCase(KeepLetters(Surname(record.authors[1]))
                                            \o record.year),
                            toLowerCase(EntryKeys[k]))

(***************************************************************************)
(* The fields of an entry.                                                 *)
(***************************************************************************)
Formatted == applied.fn \in {"convertToBibTeX", "handleConversion"}

\* the place of a field in the order list of the style, 0 when not in it
PlaceOf(field) ==
    With(getFieldOrder(applied.options.citationStyle), LAMBDA order :
        IF field \in Range(order)
        THEN CHOOSE k \in DOMAIN order : order[k] = field
        ELSE 0)

\* entry field k stands for the field of the reference: journal is written
\* as journaltitle under biblatex
WrittenAs(field, k) ==
    \/ applied.entry[k].field = field
    \/ /\ applied.options.citationStyle = "biblatex"
       /\ field = "journal"
       /\ applied.entry[k].field = "journaltitle"

\* C25: under every style each non-empty field of the reference is written
\* into its entry, the fields of the style's order list first and in the
\* order of the list, the others after them
C25_EveryFieldEmitted ==
    Formatted =>
        /\ \A f \in RefFields :
              applied.ref[f] # "" => \E k \in DOMAIN applied.entry : WrittenAs(f, k)
        /\ \A a, b \in DOMAIN applied.entry :
              (a < b /\ PlaceOf(applied.entry[b].field) > 0) =>
                  /\ PlaceOf(applied.entry[a].field) > 0
                  /\ PlaceOf(applied.entry[a].field) < PlaceOf(applied.entry[b].field)

\* C26: with the 'Escape LaTeX characters' control unchecked the options
\* handed to the conversion have escapeLatex = false, and every value of the
\* entry is the text of its field as the style left it, without an escape
C26_UncheckedMeansUnescaped ==
    (Formatted /\ applied.unchecked) =>
        /\ ~applied.options.escapeLatex
        /\ \A k \in DOMAIN applied.entry :
              applied.entry[k].value =
                  applyCitationStyle(applied.ref, applied.options)[applied.entry[k].field]

(***************************************************************************)
(* The progress callback after a cancellation.                             *)
(***************************************************************************)
\* C27: once the progress callback has returned false during a run of
\* convertToBibtex it is not invoked again in that run: no invocation
\* follows one that returned false
C27_NoCallbackAfterFalse ==
    impl = "XMLConverter" =>
        \A p, q \in DOMAIN events :
            (p < q /\ events[p].e = "cb" /\ ~events[p].flag) => events[q].e # "cb"

(***************************************************************************)
(* The progress manager.                                                   *)
(***************************************************************************)
\* the state is within its ranges
ProgressInRange ==
    /\ progress.state.current <= progress.state.total
    /\ 0 <= progress.state.percentage
    /\ progress.state.percentage <= 100
    /\ ~(progress.state.isActive /\ progress.state.isCancelled)

\* C28: whatever calls were made, current <= total, 0 <= percentage <= 100
\* and the manager is not active and cancelled at once; an update or
\* increment made after a cancel and before the next start leaves the state
\* as it was and invokes no callback
C28_ProgressStateConsistent ==
    [][/\ ProgressInRange'
       /\ (progress.afterCancel /\ progress'.call \in {"update", "increment"}) =>
              /\ progress'.state = progress.state
              /\ progress'.invoked = 0]_vars

\* an increment was made on a cancelled manager that has a callback and was
\* part of the way through
C28_Witness ==
    /\ progress.afterCancel
    /\ progress.call = "increment"
    /\ progress.callbacks > 0
    /\ progress.state.isCancelled
    /\ progress.state.current = 1 /\ progress.state.total = 3
    /\ progress.state.percentage = 33

(***************************************************************************)
(* The logger.                                                             *)
(***************************************************************************)
\* C29: the retained entries are never more than maxLogs, and they are the
\* most recent ones in the order they were made: the entries of the last
\* log calls, without a gap
C29_RetainedWithinMaxLogs ==
    /\ Len(logger.logs) <= logger.maxLogs
    /\ \A k \in DOMAIN logger.logs :
          logger.logs[k].n = logger.made - Len(logger.logs) + k

(***************************************************************************)
(* The settings manager.                                                   *)
(***************************************************************************)
\* what the schema allows for the five settings
SchemaAllows(path, value) ==
    \/ path = <<"conversion", "escapeLatexChars">> /\ value.type = "boolean"
    \/ path = <<"conversion", "citationStyle">>
            /\ value \in {Str("standard"), Str("acm"), Str("ieee"), Str("apa"),
                           Str("harvard"), Str("chicago"), Str("biblatex")}
    \/ path = <<"api", "timeout">> /\ value.type = "number"
    \/ path = <<"ui", "theme">> /\ value \in {Str("light"), Str("dark"), Str("auto")}
    \/ path = <<"files", "downloadPath">> /\ value.type \in {"string", "undefined"}

\* C30: importSettings(exportSettings()) does not throw and leaves every
\* setting as it was; a set with a value the schema rejects throws and
\* leaves the settings, the stored copy and the listeners as they were
C30_ImportOfExportKeepsSettings ==
    [][/\ settingsManager'.call = "importSettings" =>
              /\ ~settingsManager'.threw
              /\ \A path \in SettingPaths :
                    getNestedValue(settingsManager'.settings, path)
                        = getNestedValue(settingsManager.settings, path)
       /\ (settingsManager'.call = "set"
              /\ ~SchemaAllows(settingsManager'.arg.path, settingsManager'.arg.value))
            => /\ settingsManager'.threw
               /\ settingsManager'.settings = settingsManager.settings
               /\ settingsManager'.stored = settingsManager.stored
               /\ settingsManager'.listeners = settingsManager.listeners
               /\ settingsManager'.notified = 0]_vars

====
